---- MODULE Spec2Model ----
(***************************************************************************)
(* Model of package dnsresolver (src/dnsresolver/resolver.go, the current  *)
(* revision at lines 141-407): the override registry, the resolver         *)
(* factory with its nameserver dial step, the one-time address-family      *)
(* probe, and the two dial paths (HTTP client transport, GetDialContext).  *)
(*                                                                         *)
(* Go strings are modelled as tuples of one-character strings, so that     *)
(* the string functions of the code (TrimSpace, HasPrefix, Contains,       *)
(* Count, concatenation) are computed and not assumed.                     *)
(***************************************************************************)
EXTENDS Integers, Sequences, FiniteSets, TLC

(***************************************************************************)
(* Bounds of the model.                                                    *)
(***************************************************************************)
\* longest list of addresses one host lookup returns
MaxIPs == 2
\* most invocations of the resolver's Dial function during one host lookup
MaxNsSteps == 2
\* most interfaces of a host in the specification of the interface scan
MaxIfaces == 2
\* most addresses of one interface in the specification of the interface scan
MaxAddrs == 2
\* longest address list in the specification of the ordering step
MaxSortLen == 4
\* longest enumerated argument in the specification of the normaliser
MaxStrLen == 4
\* longest argument in the specification of repeated SetCustomDNSServer calls
MaxSetLen == 2
\* most polls of WarnKomariRunning in the specification of the session watch
MaxPolls == 3
\* most arguments of the parent in the specification of the helper launch
MaxArgs == 3

(***************************************************************************)
(* Strings.                                                                *)
(***************************************************************************)
EmptyStr == << >>

RECURSIVE TrimLeft(_)
TrimLeft(s) ==
    IF s # << >> /\ Head(s) = " " THEN TrimLeft(Tail(s)) ELSE s

RECURSIVE TrimRight(_)
TrimRight(s) ==
    IF s # << >> /\ s[Len(s)] = " " THEN TrimRight(SubSeq(s, 1, Len(s) - 1)) ELSE s

\* strings.TrimSpace
TrimSpace(s) == TrimRight(TrimLeft(s))

\* strings.HasPrefix
HasPrefix(s, p) == Len(s) >= Len(p) /\ SubSeq(s, 1, Len(p)) = p

\* strings.Contains
Contains(s, sub) ==
    \E i \in 1..(Len(s) - Len(sub) + 1) : SubSeq(s, i, i + Len(sub) - 1) = sub

\* strings.Count for a one-character separator
Count(s, ch) == Cardinality({i \in 1..Len(s) : s[i] = ch})

\* the sequences over S of length at most n
RECURSIVE SeqsUpTo(_, _)
SeqsUpTo(S, n) ==
    IF n = 0 THEN {<< >>}
    ELSE LET shorter == SeqsUpTo(S, n - 1) IN
         shorter \cup {Append(s, x) : s \in {t \in shorter : Len(t) = n - 1}, x \in S}

(***************************************************************************)
(* The built-in fallback nameservers, in priority order.                   *)
(***************************************************************************)
DNSServers == <<
    <<"[","2","6","0","6",":","4","7","0","0",":","4","7","0","0",":",":","1","1","1","1","]",":","5","3">>,
    <<"[","2","6","0","6",":","4","7","0","0",":","4","7","0","0",":",":","1","0","0","1","]",":","5","3">>,
    <<"[","2","0","0","1",":","4","8","6","0",":","4","8","6","0",":",":","8","8","8","8","]",":","5","3">>,
    <<"[","2","0","0","1",":","4","8","6","0",":","4","8","6","0",":",":","8","8","4","4","]",":","5","3">>,
    <<"1","1","4",".","1","1","4",".","1","1","4",".","1","1","4",":","5","3">>,
    <<"1",".","1",".","1",".","1",":","5","3">>,
    <<"8",".","8",".","8",".","8",":","5","3">>,
    <<"8",".","8",".","4",".","4",":","5","3">>,
    <<"2","2","3",".","5",".","5",".","5",":","5","3">>,
    <<"1","1","9",".","2","9",".","2","9",".","2","9",":","5","3">> >>

Port53 == <<":", "5", "3">>

\* mutant: the input is not trimmed
normalizeDNSServer_NoTrim(s) ==
    IF (HasPrefix(s, <<"[">>) /\ Contains(s, <<"]", ":">>))
         \/ (Count(s, ":") = 1 /\ ~Contains(s, <<"]">>))
    THEN s
    ELSE IF Count(s, ":") >= 2 /\ ~Contains(s, <<"]">>)
    THEN <<"[">> \o s \o <<"]">> \o Port53
    ELSE IF ~Contains(s, <<":">>)
    THEN s \o Port53
    ELSE s

\* mutant: two or more colons are wrapped whether or not a "]" is present
normalizeDNSServer_WrapAny(s0) ==
    LET s == TrimSpace(s0) IN
    IF (HasPrefix(s, <<"[">>) /\ Contains(s, <<"]", ":">>))
         \/ (Count(s, ":") = 1 /\ ~Contains(s, <<"]">>))
    THEN s
    ELSE IF Count(s, ":") >= 2
    THEN <<"[">> \o s \o <<"]">> \o Port53
    ELSE IF ~Contains(s, <<":">>)
    THEN s \o Port53
    ELSE s

\* mutant: whatever is not host:port and is not wrapped gets ":53" appended
normalizeDNSServer_AppendPort(s0) ==
    LET s == TrimSpace(s0) IN
    IF Count(s, ":") = 1 /\ ~Contains(s, <<"]">>)
    THEN s
    ELSE IF Count(s, ":") >= 2 /\ ~Contains(s, <<"]">>)
    THEN <<"[">> \o s \o <<"]">> \o Port53
    ELSE s \o Port53

\* normalizeDNSServer: best-effort syntactic normalisation to host:port
normalizeDNSServer(s0) ==
    LET s == TrimSpace(s0) IN
    IF (HasPrefix(s, <<"[">>) /\ Contains(s, <<"]", ":">>))
         \/ (Count(s, ":") = 1 /\ ~Contains(s, <<"]">>))
    THEN s
    ELSE IF Count(s, ":") >= 2 /\ ~Contains(s, <<"]">>)
    THEN <<"[">> \o s \o <<"]">> \o Port53
    ELSE IF ~Contains(s, <<":">>)
    THEN s \o Port53
    ELSE s

\* Arguments of the specification of the normaliser: every string of up to
\* MaxStrLen characters over the characters the function tells apart (a
\* space, a colon, the brackets, and "a" for any other character), and the
\* documented examples spelled out.
NormAlphabet == {"a", ":", "[", "]", " "}

NormExamples == {
    <<"2","0","0","1",":","d","b","8",":",":","1">>,
    <<"8",".","8",".","8",".","8">>,
    <<"8",".","8",".","8",".","8",":","5","3","0","0">>,
    <<"[","2","0","0","1",":","d","b","8",":",":","1","]",":","5","3","0","0">>,
    <<"[","2","0","0","1",":","d","b","8",":",":","1","]">>,
    <<" ","8",".","8",".","8",".","8",":","5","3"," ">> }

NormInputs == (SeqsUpTo(NormAlphabet, MaxStrLen) \cup NormExamples) \ {EmptyStr}

\* arguments of the specification of repeated calls, the empty one included
SetAlphabet == {"a", ":", " "}

SetInputs == SeqsUpTo(SetAlphabet, MaxSetLen)

\* What the command-line collaborator may pass to SetCustomDNSServer: nothing,
\* a padded bare IPv4 literal (a fallback entry once normalised), a bare IPv6
\* literal (the first fallback entry once normalised), and an endpoint that
\* is not in the fallback list.
OverrideInputs == {
    EmptyStr,
    <<" ","8",".","8",".","8",".","8"," ">>,
    <<"2","6","0","6",":","4","7","0","0",":","4","7","0","0",":",":","1","1","1","1">>,
    <<"9",".","9",".","9",".","9",":","5","3">> }

(***************************************************************************)
(* Target addresses, resolved candidates, host interfaces.                 *)
(***************************************************************************)
\* addr arguments of a dial: one that net.SplitHostPort splits, one it rejects
GoodAddr == "example.com:443"
BadAddr == "example.com"
Addrs == {GoodAddr, BadAddr}

SplitHostPortOK(a) == a = GoodAddr

\* strings a host lookup may return; "bad" is one net.ParseIP rejects
CandidateIPs == {"v4a", "v6a", "bad"}

\* strings of the specification of the ordering step: two addresses of each
\* family, and two that net.ParseIP rejects (an IPv6 address with a zone,
\* such as "fe80::1%eth0", is one a lookup can return)
SortIPs == {"v4a", "v4b", "v6a", "v6b", "bad", "bad2"}

\* net.ParseIP(ip) == nil
ParseFails(ip) == ip \in {"bad", "bad2"}

\* net.ParseIP(ip).To4() != nil
IsTo4(ip) == ip \in {"v4a", "v4b"}

\* the non-empty address lists LookupHost may return
LookupResults == SeqsUpTo(CandidateIPs, MaxIPs) \ {<< >>}

\* callers: goroutines of the collaborators that use the package
Calls == {"c1", "c2", "c3"}

NoConn == "none"
NoErr == "nil"
ErrNoDNS == "no available DNS server"
ErrDialAll == "failed to dial to any of the resolved IPs"
ErrSplit == "missing port in address"
ErrLookup == "lookup failed"


(***************************************************************************)
(* Host interfaces, as net.Interfaces and Interface.Addrs report them.     *)
(* Address kinds: "v4" and "v6" are unicast addresses, "lo4" and "lo6" are *)
(* loopback addresses (127.0.0.1, ::1), "other" is an address that is      *)
(* neither *net.IPNet nor *net.IPAddr, for which ip stays nil.             *)
(***************************************************************************)
AddrKinds == {"v4", "v6", "lo4", "lo6", "other"}

IpIsNil(a) == a = "other"
IpIsLoopback(a) == a \in {"lo4", "lo6"}
IpTo4(a) == a \in {"v4", "lo4"}

Iface(up, lo, addrs) == [up |-> up, loopback |-> lo, addrs |-> addrs]

\* interface tables the host may show; the empty one is also what the code
\* sees when net.Interfaces fails (the error is dropped)
HostConfigs == {
    << >>,
    << Iface(TRUE, TRUE, <<"lo4", "lo6">>), Iface(TRUE, FALSE, <<"v6", "v4">>) >>,
    << Iface(FALSE, FALSE, <<"v4">>), Iface(TRUE, FALSE, <<"lo4", "other", "v6">>) >> }

\* the interfaces whose address lists are drawn from addrLists
IfacesWith(addrLists) ==
    {Iface(up, lo, addrs) : up \in BOOLEAN, lo \in BOOLEAN, addrs \in addrLists}

\* interface tables for the specification of the scan alone: every table of
\* up to MaxIfaces interfaces with at most one address each, and every
\* single interface with up to MaxAddrs addresses
ScanHosts ==
    SeqsUpTo(IfacesWith(SeqsUpTo(AddrKinds, 1)), MaxIfaces)
        \cup {<< i >> : i \in IfacesWith(SeqsUpTo(AddrKinds, MaxAddrs))}

\* mutant: loopback addresses are not skipped
RECURSIVE ScanAddrs_NoLoopbackSkip(_, _)
ScanAddrs_NoLoopbackSkip(addrs, j) ==
    IF j > Len(addrs) THEN FALSE
    ELSE IF IpIsNil(addrs[j]) THEN ScanAddrs_NoLoopbackSkip(addrs, j + 1)
    ELSE IF IpTo4(addrs[j]) THEN TRUE
    ELSE ScanAddrs_NoLoopbackSkip(addrs, j + 1)

\* the inner loop of the scan: does this interface yield an IPv4 address
RECURSIVE ScanAddrs(_, _)
ScanAddrs(addrs, j) ==
    IF j > Len(addrs) THEN FALSE
    ELSE IF IpIsNil(addrs[j]) \/ IpIsLoopback(addrs[j]) THEN ScanAddrs(addrs, j + 1)
    ELSE IF IpTo4(addrs[j]) THEN TRUE
    ELSE ScanAddrs(addrs, j + 1)

\* the outer loop of the scan: the value the function passed to Once.Do
\* stores in hasIPv4
RECURSIVE ScanIfaces(_, _)
ScanIfaces(ifaces, i) ==
    IF i > Len(ifaces) THEN FALSE
    ELSE IF ~ifaces[i].up \/ ifaces[i].loopback THEN ScanIfaces(ifaces, i + 1)
    ELSE IF ScanAddrs(ifaces[i].addrs, 1) THEN TRUE
    ELSE ScanIfaces(ifaces, i + 1)

(***************************************************************************)
(* The ordering step: sort.SliceStable with the family comparator.  For a  *)
(* slice of at most 20 elements SliceStable is one insertion sort.         *)
(***************************************************************************)
\* mutant: the comparator looks at the family of its first argument only
Less_FirstOnly(preferIPv4, x, y) ==
    IF ParseFails(x) \/ ParseFails(y) THEN FALSE
    ELSE IF preferIPv4 THEN IsTo4(x)
    ELSE ~IsTo4(x)

\* mutant: no test for a failed parse; To4 of a nil IP is nil, so a string
\* that does not parse is ordered as an IPv6 address
Less_NoNilCheck(preferIPv4, x, y) ==
    IF preferIPv4 THEN IsTo4(x) /\ ~IsTo4(y)
    ELSE ~IsTo4(x) /\ IsTo4(y)

\* the less function handed to sort.SliceStable
Less(preferIPv4, x, y) ==
    IF ParseFails(x) \/ ParseFails(y) THEN FALSE
    ELSE IF preferIPv4 THEN IsTo4(x) /\ ~IsTo4(y)
    ELSE ~IsTo4(x) /\ IsTo4(y)

Swap(s, i, j) == [s EXCEPT ![i] = s[j], ![j] = s[i]]

RECURSIVE InsertDown(_, _, _)
InsertDown(s, j, preferIPv4) ==
    IF j > 1 /\ Less(preferIPv4, s[j], s[j - 1])
    THEN InsertDown(Swap(s, j, j - 1), j - 1, preferIPv4)
    ELSE s

RECURSIVE InsertionSort(_, _, _)
InsertionSort(s, i, preferIPv4) ==
    IF i > Len(s) THEN s
    ELSE InsertionSort(InsertDown(s, i, preferIPv4), i + 1, preferIPv4)

SliceStable(s, preferIPv4) == InsertionSort(s, 2, preferIPv4)

(***************************************************************************)
(* Timeouts, in seconds.                                                   *)
(***************************************************************************)
HTTPDefaultTimeout == 30
DialContextDefaultTimeout == 15
NetDialerDefaultTimeout == 5
NsDialTimeout == 10
HTTPCandidateTimeout == 30

\* timeout arguments a collaborator may pass to a factory
TimeoutInputs == {-1, 0, 7}

(***************************************************************************)
(* State.                                                                  *)
(***************************************************************************)
VARIABLES
    CustomDNSServer,  \* the process-wide override, normalised; empty if unset
    setHist,          \* history: the last recorded call of SetCustomDNSServer,
                      \* its argument and the override before it; empty if none
    gpuInfos,         \* what the last call of GetDetailedGPUInfo was given and
                      \* what it returned; NoGpu if none
    seen,             \* WarnKomariRunning: the set of sessions seen
    polls,            \* history: the polls of WarnKomariRunning so far, each
                      \* with what the enumeration gave and the launches made
    launch,           \* what the last call of launchSelfInSession was given and
                      \* the command line it built; NoLaunch if none
    report,           \* what the last call of GenerateReport computed for the
                      \* GPU and whether it returned a document; NoReport if none
    onceDone,         \* preferV4Once: its done flag
    onceM,            \* preferV4Once: the holder of its mutex, or "free"
    hasIPv4,          \* the cached preference
    host,             \* the host's interface table at this moment
    scans,            \* history: the results of the interface scans run so far
    returned,         \* history: each value preferIPv4First has returned, with
                      \* what a scan of the interfaces would have given then
    fn,               \* per caller: the dial function it holds
    pc,               \* per caller: its position
    op,               \* per caller: "none", "dial" or "prefer"
    addr,             \* per caller: the addr argument of the dial
    lookupCtx,        \* per caller: timeout of the lookup sub-context, 0 if none
    looked,           \* per caller: the address list LookupHost returned
    ips,              \* per caller: the address list, ordered once sorted
    ci,               \* per caller: index of the connect loop
    tried,            \* per caller: the candidate dials started, with outcome
    nsSteps,          \* per caller: invocations of the resolver's Dial so far
    dnsServer,        \* per caller: local dnsServer of the resolver's Dial
    nsIdx,            \* per caller: index of the fallback loop
    nsLog,            \* per caller: the nameserver dials of this invocation
    nsRet,            \* per caller: what the resolver's Dial returned
    prefVal,          \* per caller: what preferIPv4First returned to it
    ret,              \* per caller: what the dial returned
    cancelled         \* per caller: "no", or the point of the dial at which
                      \* the caller cancelled the context it passed

vars == << CustomDNSServer, setHist, gpuInfos, seen, polls, launch, report, onceDone, onceM, hasIPv4, host, scans, returned,
           fn, pc, op, addr, lookupCtx, looked, ips, ci, tried,
           nsSteps, dnsServer, nsIdx, nsLog, nsRet, prefVal, ret, cancelled >>

globalVars == << CustomDNSServer, setHist, gpuInfos, seen, polls, launch, report, onceDone, onceM, hasIPv4, host, scans, returned >>
onceVars == << onceDone, onceM, hasIPv4, scans, returned >>
nsVars == << nsSteps, dnsServer, nsIdx, nsLog, nsRet >>
connVars == << looked, ips, ci, tried >>

NoFn == [path |-> "none", resolver |-> "none", timeout |-> 0, override |-> FALSE]
NoRet == [conn |-> NoConn, err |-> NoErr]
\* launchSelfInSession has not been called
NoLaunch == [called |-> FALSE, args |-> << >>, fullArgs |-> << >>, cmdline |-> << >>]
\* GenerateReport has not been called
NoReport == [called |-> FALSE, gpu |-> "none", count |-> 0, sum |-> 0, divided |-> FALSE,
             nan |-> FALSE, produced |-> FALSE]
\* GetDetailedGPUInfo has not been called
NoGpu == [vendor |-> "none", data |-> << >>, err |-> FALSE, infos |-> << >>]

\* the package's variables at their zero values, no call under way
ZeroState ==
    /\ CustomDNSServer = EmptyStr
    /\ setHist = << >>
    /\ gpuInfos = NoGpu
    /\ seen = {}
    /\ polls = << >>
    /\ launch = NoLaunch
    /\ report = NoReport
    /\ onceDone = FALSE
    /\ onceM = "free"
    /\ hasIPv4 = FALSE
    /\ scans = << >>
    /\ returned = {}
    /\ fn = [c \in Calls |-> NoFn]
    /\ pc = [c \in Calls |-> "idle"]
    /\ op = [c \in Calls |-> "none"]
    /\ addr = [c \in Calls |-> ""]
    /\ lookupCtx = [c \in Calls |-> 0]
    /\ looked = [c \in Calls |-> << >>]
    /\ ips = [c \in Calls |-> << >>]
    /\ ci = [c \in Calls |-> 0]
    /\ tried = [c \in Calls |-> << >>]
    /\ nsSteps = [c \in Calls |-> 0]
    /\ dnsServer = [c \in Calls |-> EmptyStr]
    /\ nsIdx = [c \in Calls |-> 0]
    /\ nsLog = [c \in Calls |-> << >>]
    /\ nsRet = [c \in Calls |-> NoRet]
    /\ prefVal = [c \in Calls |-> FALSE]
    /\ ret = [c \in Calls |-> NoRet]
    /\ cancelled = [c \in Calls |-> "no"]

Init == ZeroState /\ host \in HostConfigs

(***************************************************************************)
(* The override registry and the resolver factory.                         *)
(***************************************************************************)
\* mutant: the empty string clears the override
StoredOverride_ClearOnEmpty(s, cur) == IF s = EmptyStr THEN EmptyStr ELSE normalizeDNSServer(s)

\* mutant: the empty string is normalised and stored like any other
StoredOverride_NoGuard(s, cur) == normalizeDNSServer(s)

\* the value of CustomDNSServer after SetCustomDNSServer(s), cur before it
StoredOverride(s, cur) == IF s = EmptyStr THEN cur ELSE normalizeDNSServer(s)

SetCustomDNSServer(s) ==
    /\ CustomDNSServer' = StoredOverride(s, CustomDNSServer)
    /\ UNCHANGED << setHist, gpuInfos, seen, polls, launch, report, onceVars, host, fn, cancelled, pc, op, addr, lookupCtx, connVars, nsVars, prefVal, ret >>

\* SetCustomDNSServer(s), the call kept as history
SetCall(s) ==
    /\ CustomDNSServer' = StoredOverride(s, CustomDNSServer)
    /\ setHist' = << [arg |-> s, prev |-> CustomDNSServer] >>
    /\ UNCHANGED << gpuInfos, seen, polls, launch, report >>
    /\ UNCHANGED << onceVars, host, fn, cancelled, pc, op, addr, lookupCtx, connVars, nsVars, prefVal, ret >>

getCurrentDNSServer == IF CustomDNSServer # EmptyStr THEN CustomDNSServer ELSE EmptyStr

\* mutant: a custom resolver is built whether or not an override is set
GetCustomResolver_AlwaysCustom == "custom"

\* the kind of resolver GetCustomResolver returns: net.DefaultResolver, or a
\* resolver whose Dial is the nameserver dial step below
GetCustomResolver == IF getCurrentDNSServer = EmptyStr THEN "default" ELSE "custom"

\* mutant: only a negative timeout is replaced
DefaultTimeout_ZeroKept(t, d) == IF t < 0 THEN d ELSE t

\* if timeout <= 0 { timeout = <default> }
DefaultTimeout(t, d) == IF t <= 0 THEN d ELSE t

GetHTTPClient(c, t) ==
    /\ pc[c] = "idle"
    /\ fn' = [fn EXCEPT ![c] = [path |-> "http", resolver |-> GetCustomResolver,
                                timeout |-> DefaultTimeout(t, HTTPDefaultTimeout),
                                override |-> CustomDNSServer # EmptyStr]]
    /\ UNCHANGED << globalVars, pc, cancelled, op, addr, lookupCtx, connVars, nsVars, prefVal, ret >>

\* the net.Dialer GetNetDialer returns: its Timeout and its Resolver
GetNetDialer(c, t) ==
    /\ pc[c] = "idle"
    /\ fn' = [fn EXCEPT ![c] = [path |-> "netdialer", resolver |-> GetCustomResolver,
                                timeout |-> DefaultTimeout(t, NetDialerDefaultTimeout),
                                override |-> CustomDNSServer # EmptyStr]]
    /\ UNCHANGED << globalVars, pc, cancelled, op, addr, lookupCtx, connVars, nsVars, prefVal, ret >>

GetDialContext(c, t) ==
    /\ pc[c] = "idle"
    /\ fn' = [fn EXCEPT ![c] = [path |-> "dialctx", resolver |-> GetCustomResolver,
                                timeout |-> DefaultTimeout(t, DialContextDefaultTimeout),
                                override |-> CustomDNSServer # EmptyStr]]
    /\ UNCHANGED << globalVars, pc, cancelled, op, addr, lookupCtx, connVars, nsVars, prefVal, ret >>


(***************************************************************************)
(* A dial through the function a caller holds: the DialContext of the HTTP *)
(* transport (path "http") or the function GetDialContext returned (path   *)
(* "dialctx").  Every blocking dial is two steps, its start and its        *)
(* return, so that attempts in flight are visible.                         *)
(***************************************************************************)
\* the point of a dial, by its position: before the lookup, in the lookup
\* (with a nameserver dial in flight or not), in the ordering step, in the
\* connect loop (with a candidate dial in flight or not)
CtxPoint(p) ==
    CASE p = "split" -> "start"
      [] p \in {"lookup", "ns_custom", "ns_loop"} -> "lookup"
      [] p \in {"ns_custom_wait", "ns_loop_wait"} -> "nsdial"
      [] p \in {"conn_loop"} -> "connect"
      [] p = "conn_wait" -> "conndial"
      [] OTHER -> "order"

\* the caller cancels the context it passed to the dial under way
Cancel(c) ==
    /\ op[c] = "dial"
    /\ pc[c] \notin {"idle", "done"}
    /\ cancelled[c] = "no"
    /\ cancelled' = [cancelled EXCEPT ![c] = CtxPoint(pc[c])]
    /\ UNCHANGED << globalVars, fn, pc, op, addr, lookupCtx, connVars, nsVars, prefVal, ret >>

\* mutant: the lookup runs under a context that is not derived from the
\* caller's
LookupCtxDone_Detached(c) == FALSE

\* the context handed to LookupHost is done: it is the caller's context
\* (HTTP path) or a sub-context of it (dial-context path), so it is done
\* once the caller's is cancelled
LookupCtxDone(c) == cancelled[c] # "no"

\* mutant: the dials run under a context that is not the caller's
DialCtxDone_Background(c) == FALSE

\* the context handed to a Dialer's DialContext is done: for a candidate
\* dial it is the caller's context, for a nameserver dial the context the
\* resolving library passes to Dial, which it derives from the lookup's
DialCtxDone(c) == cancelled[c] # "no"

DialStart(c, a) ==
    /\ pc[c] = "idle"
    /\ fn[c].path \in {"http", "dialctx"}
    /\ op' = [op EXCEPT ![c] = "dial"]
    /\ addr' = [addr EXCEPT ![c] = a]
    /\ pc' = [pc EXCEPT ![c] = "split"]
    /\ UNCHANGED << globalVars, fn, cancelled, lookupCtx, connVars, nsVars, prefVal, ret >>

\* mutant: the error of net.SplitHostPort is ignored
SplitHostPort_GoOn(c) ==
    /\ pc[c] = "split"
    /\ pc' = [pc EXCEPT ![c] = "lookup"]
    /\ lookupCtx' = [lookupCtx EXCEPT ![c] =
           IF fn[c].path = "dialctx" THEN fn[c].timeout ELSE 0]
    /\ ret' = ret
    /\ UNCHANGED << globalVars, fn, cancelled, op, addr, connVars, nsVars, prefVal >>

\* net.SplitHostPort(addr); on success the lookup phase begins, under a
\* sub-context with the timeout in the dial-context path only
SplitHostPort(c) ==
    /\ pc[c] = "split"
    /\ IF SplitHostPortOK(addr[c])
       THEN /\ pc' = [pc EXCEPT ![c] = "lookup"]
            /\ lookupCtx' = [lookupCtx EXCEPT ![c] =
                   IF fn[c].path = "dialctx" THEN fn[c].timeout ELSE 0]
            /\ ret' = ret
       ELSE /\ pc' = [pc EXCEPT ![c] = "done"]
            /\ ret' = [ret EXCEPT ![c] = [conn |-> NoConn, err |-> ErrSplit]]
            /\ lookupCtx' = lookupCtx
    /\ UNCHANGED << globalVars, fn, cancelled, op, addr, connVars, nsVars, prefVal >>

\* the end of LookupHost: an error (r empty), or the address list r
LookupReturns(c, r) ==
    /\ IF r = << >>
       THEN /\ pc' = [pc EXCEPT ![c] = "done"]
            /\ ret' = [ret EXCEPT ![c] = [conn |-> NoConn, err |-> ErrLookup]]
            /\ UNCHANGED << looked, ips >>
       ELSE /\ pc' = [pc EXCEPT ![c] = "once_fast"]
            /\ looked' = [looked EXCEPT ![c] = r]
            /\ ips' = [ips EXCEPT ![c] = r]
            /\ ret' = ret
    \* the locals of the resolver's Dial are gone
    /\ dnsServer' = [dnsServer EXCEPT ![c] = EmptyStr]
    /\ nsIdx' = [nsIdx EXCEPT ![c] = 0]
    /\ nsLog' = [nsLog EXCEPT ![c] = << >>]
    /\ nsRet' = [nsRet EXCEPT ![c] = NoRet]
    /\ nsSteps' = nsSteps

\* LookupHost on net.DefaultResolver: the platform resolves, the package
\* dials no nameserver.  Under a context that is done LookupHost returns an
\* error.
LookupDefault(c, r) ==
    /\ pc[c] = "lookup"
    /\ fn[c].resolver = "default"
    /\ LookupCtxDone(c) => r = << >>
    /\ LookupReturns(c, r)
    /\ UNCHANGED << globalVars, fn, cancelled, op, addr, lookupCtx, ci, tried, prefVal >>

\* mutant: the resolver is chosen when the lookup runs, not when the dial
\* function was built
ResolverDial_LateBound(c) ==
    /\ pc[c] = "lookup"
    /\ GetCustomResolver = "custom"
    /\ nsSteps[c] < MaxNsSteps
    /\ nsSteps' = [nsSteps EXCEPT ![c] = @ + 1]
    /\ dnsServer' = [dnsServer EXCEPT ![c] = getCurrentDNSServer]
    /\ nsLog' = [nsLog EXCEPT ![c] = << >>]
    /\ nsRet' = [nsRet EXCEPT ![c] = NoRet]
    /\ nsIdx' = [nsIdx EXCEPT ![c] = 0]
    /\ pc' = [pc EXCEPT ![c] = "ns_custom"]
    /\ UNCHANGED << globalVars, fn, cancelled, op, addr, lookupCtx, connVars, prefVal, ret >>

\* LookupHost on the custom resolver needs a channel to a nameserver: the
\* resolving library invokes the resolver's Dial, which reads the override
ResolverDial(c) ==
    /\ pc[c] = "lookup"
    /\ fn[c].resolver = "custom"
    /\ nsSteps[c] < MaxNsSteps
    /\ nsSteps' = [nsSteps EXCEPT ![c] = @ + 1]
    /\ dnsServer' = [dnsServer EXCEPT ![c] = getCurrentDNSServer]
    /\ nsLog' = [nsLog EXCEPT ![c] = << >>]
    /\ nsRet' = [nsRet EXCEPT ![c] = NoRet]
    /\ nsIdx' = [nsIdx EXCEPT ![c] = 0]
    /\ pc' = [pc EXCEPT ![c] = "ns_custom"]
    /\ UNCHANGED << globalVars, fn, cancelled, op, addr, lookupCtx, connVars, prefVal, ret >>

NsAttempt(server) == [server |-> server, out |-> "inflight", timeout |-> NsDialTimeout]

\* the outcome of the dial in flight is written into the log
Settle(log, ok) == [log EXCEPT ![Len(log)].out = IF ok THEN "ok" ELSE "fail"]

\* mutant: the override is not dialed first, the fallback loop starts at once
NsCustom_FallbackFirst(c) ==
    /\ pc[c] = "ns_custom"
    /\ nsIdx' = [nsIdx EXCEPT ![c] = 1]
    /\ pc' = [pc EXCEPT ![c] = "ns_loop"]
    /\ UNCHANGED << globalVars, fn, cancelled, op, addr, lookupCtx, connVars, nsSteps, dnsServer,
                    nsLog, nsRet, prefVal, ret >>

\* if dnsServer != "": start the UDP dial to the override
NsCustom(c) ==
    /\ pc[c] = "ns_custom"
    /\ IF dnsServer[c] # EmptyStr
       THEN /\ nsLog' = [nsLog EXCEPT ![c] = Append(@, NsAttempt(dnsServer[c]))]
            /\ pc' = [pc EXCEPT ![c] = "ns_custom_wait"]
            /\ nsIdx' = nsIdx
       ELSE /\ nsIdx' = [nsIdx EXCEPT ![c] = 1]
            /\ pc' = [pc EXCEPT ![c] = "ns_loop"]
            /\ nsLog' = nsLog
    /\ UNCHANGED << globalVars, fn, cancelled, op, addr, lookupCtx, connVars, nsSteps, dnsServer,
                    nsRet, prefVal, ret >>

\* the override's dial returns: its connection is returned, or the fallback
\* loop begins.  Under a context that is done DialContext returns an error.
NsCustomDone(c, ok) ==
    /\ pc[c] = "ns_custom_wait"
    /\ ok => ~DialCtxDone(c)
    /\ nsLog' = [nsLog EXCEPT ![c] = Settle(@, ok)]
    /\ IF ok
       THEN /\ nsRet' = [nsRet EXCEPT ![c] = [conn |-> dnsServer[c], err |-> NoErr]]
            /\ pc' = [pc EXCEPT ![c] = "lookup"]
            /\ nsIdx' = nsIdx
       ELSE /\ nsIdx' = [nsIdx EXCEPT ![c] = 1]
            /\ pc' = [pc EXCEPT ![c] = "ns_loop"]
            /\ nsRet' = nsRet
    /\ UNCHANGED << globalVars, fn, cancelled, op, addr, lookupCtx, connVars, nsSteps, dnsServer,
                    prefVal, ret >>

\* mutant: the loop stops one entry early
NsExhausted_OffByOne(i) == i >= Len(DNSServers)

\* the range loop over DNSServers is exhausted
NsExhausted(i) == i > Len(DNSServers)

\* mutant: the entry equal to the override is not skipped
SkipServer_Never(server, dns) == FALSE

\* if server == dnsServer { continue }
SkipServer(server, dns) == server = dns

\* one turn of the fallback loop: the end of the list, an entry skipped, or
\* the start of the UDP dial to the entry
NsLoop(c) ==
    /\ pc[c] = "ns_loop"
    /\ IF NsExhausted(nsIdx[c])
       THEN /\ nsRet' = [nsRet EXCEPT ![c] = [conn |-> NoConn, err |-> ErrNoDNS]]
            /\ pc' = [pc EXCEPT ![c] = "lookup"]
            /\ UNCHANGED << nsIdx, nsLog >>
       ELSE IF SkipServer(DNSServers[nsIdx[c]], dnsServer[c])
       THEN /\ nsIdx' = [nsIdx EXCEPT ![c] = @ + 1]
            /\ UNCHANGED << pc, nsLog, nsRet >>
       ELSE /\ nsLog' = [nsLog EXCEPT ![c] = Append(@, NsAttempt(DNSServers[nsIdx[c]]))]
            /\ pc' = [pc EXCEPT ![c] = "ns_loop_wait"]
            /\ UNCHANGED << nsIdx, nsRet >>
    /\ UNCHANGED << globalVars, fn, cancelled, op, addr, lookupCtx, connVars, nsSteps, dnsServer,
                    prefVal, ret >>

\* mutant: a successful fallback dial does not end the loop
NsLoopDone_KeepGoing(c, ok) ==
    /\ pc[c] = "ns_loop_wait"
    /\ nsLog' = [nsLog EXCEPT ![c] = Settle(@, ok)]
    /\ nsIdx' = [nsIdx EXCEPT ![c] = @ + 1]
    /\ pc' = [pc EXCEPT ![c] = "ns_loop"]
    /\ nsRet' = nsRet
    /\ UNCHANGED << globalVars, fn, cancelled, op, addr, lookupCtx, connVars, nsSteps, dnsServer,
                    prefVal, ret >>

\* a fallback dial returns: its connection is returned, or the loop goes on
NsLoopDone(c, ok) ==
    /\ pc[c] = "ns_loop_wait"
    /\ ok => ~DialCtxDone(c)
    /\ nsLog' = [nsLog EXCEPT ![c] = Settle(@, ok)]
    /\ IF ok
       THEN /\ nsRet' = [nsRet EXCEPT ![c] = [conn |-> DNSServers[nsIdx[c]], err |-> NoErr]]
            /\ pc' = [pc EXCEPT ![c] = "lookup"]
            /\ nsIdx' = nsIdx
       ELSE /\ nsIdx' = [nsIdx EXCEPT ![c] = @ + 1]
            /\ pc' = [pc EXCEPT ![c] = "ns_loop"]
            /\ nsRet' = nsRet
    /\ UNCHANGED << globalVars, fn, cancelled, op, addr, lookupCtx, connVars, nsSteps, dnsServer,
                    prefVal, ret >>

\* LookupHost on the custom resolver ends: with addresses only if the last
\* invocation of Dial gave the library a channel
LookupCustom(c, r) ==
    /\ pc[c] = "lookup"
    /\ fn[c].resolver = "custom"
    /\ nsSteps[c] >= 1
    /\ r # << >> => nsRet[c].conn # NoConn
    /\ LookupCtxDone(c) => r = << >>
    /\ LookupReturns(c, r)
    /\ UNCHANGED << globalVars, fn, cancelled, op, addr, lookupCtx, ci, tried, prefVal >>


(***************************************************************************)
(* preferIPv4First: preferV4Once.Do(scan), then the read of hasIPv4.       *)
(* sync.Once.Do: if done is unset, take the mutex, and if done is still    *)
(* unset run the function and set done; then release the mutex.            *)
(***************************************************************************)
\* a direct call of preferIPv4First, outside a dial
PreferStart(c) ==
    /\ pc[c] = "idle"
    /\ op' = [op EXCEPT ![c] = "prefer"]
    /\ pc' = [pc EXCEPT ![c] = "once_fast"]
    /\ UNCHANGED << globalVars, fn, cancelled, addr, lookupCtx, connVars, nsVars, prefVal, ret >>

\* Once.Do's fast path: the load of done
OnceFast(c) ==
    /\ pc[c] = "once_fast"
    /\ pc' = [pc EXCEPT ![c] = IF onceDone THEN "once_read" ELSE "once_lock"]
    /\ UNCHANGED << globalVars, fn, cancelled, op, addr, lookupCtx, connVars, nsVars, prefVal, ret >>

\* mutant: the mutex is taken without waiting for it to be free
OnceLock_NoWait(c) ==
    /\ pc[c] = "once_lock"
    /\ onceM' = c
    /\ pc' = [pc EXCEPT ![c] = "once_check"]
    /\ UNCHANGED << CustomDNSServer, setHist, gpuInfos, seen, polls, launch, report, onceDone, hasIPv4, host, scans, returned,
                    fn, cancelled, op, addr, lookupCtx, connVars, nsVars, prefVal, ret >>

\* doSlow: o.m.Lock()
OnceLock(c) ==
    /\ pc[c] = "once_lock"
    /\ onceM = "free"
    /\ onceM' = c
    /\ pc' = [pc EXCEPT ![c] = "once_check"]
    /\ UNCHANGED << CustomDNSServer, setHist, gpuInfos, seen, polls, launch, report, onceDone, hasIPv4, host, scans, returned,
                    fn, cancelled, op, addr, lookupCtx, connVars, nsVars, prefVal, ret >>

\* doSlow: the second load of done, under the mutex
OnceCheck(c) ==
    /\ pc[c] = "once_check"
    /\ pc' = [pc EXCEPT ![c] = IF onceDone THEN "once_unlock" ELSE "once_f"]
    /\ UNCHANGED << globalVars, fn, cancelled, op, addr, lookupCtx, connVars, nsVars, prefVal, ret >>

\* the function passed to Do: the interface scan, which writes hasIPv4
OnceScan(c) ==
    /\ pc[c] = "once_f"
    /\ hasIPv4' = ScanIfaces(host, 1)
    /\ scans' = Append(scans, ScanIfaces(host, 1))
    /\ pc' = [pc EXCEPT ![c] = "once_store"]
    /\ UNCHANGED << CustomDNSServer, setHist, gpuInfos, seen, polls, launch, report, onceDone, onceM, host, returned,
                    fn, cancelled, op, addr, lookupCtx, connVars, nsVars, prefVal, ret >>

\* mutant: done is never set, so every call scans again
OnceStore_Forget(c) ==
    /\ pc[c] = "once_store"
    /\ pc' = [pc EXCEPT ![c] = "once_unlock"]
    /\ UNCHANGED << globalVars, fn, cancelled, op, addr, lookupCtx, connVars, nsVars, prefVal, ret >>

\* doSlow: the deferred o.done.Store(1)
OnceStore(c) ==
    /\ pc[c] = "once_store"
    /\ onceDone' = TRUE
    /\ pc' = [pc EXCEPT ![c] = "once_unlock"]
    /\ UNCHANGED << CustomDNSServer, setHist, gpuInfos, seen, polls, launch, report, onceM, hasIPv4, host, scans, returned,
                    fn, cancelled, op, addr, lookupCtx, connVars, nsVars, prefVal, ret >>

\* doSlow: the deferred o.m.Unlock()
OnceUnlock(c) ==
    /\ pc[c] = "once_unlock"
    /\ onceM' = "free"
    /\ pc' = [pc EXCEPT ![c] = "once_read"]
    /\ UNCHANGED << CustomDNSServer, setHist, gpuInfos, seen, polls, launch, report, onceDone, hasIPv4, host, scans, returned,
                    fn, cancelled, op, addr, lookupCtx, connVars, nsVars, prefVal, ret >>

\* return hasIPv4
PreferReturn(c) ==
    /\ pc[c] = "once_read"
    /\ prefVal' = [prefVal EXCEPT ![c] = hasIPv4]
    /\ returned' = returned \cup {[v |-> hasIPv4, now |-> ScanIfaces(host, 1)]}
    /\ pc' = [pc EXCEPT ![c] = IF op[c] = "dial" THEN "sort" ELSE "done"]
    /\ UNCHANGED << CustomDNSServer, setHist, gpuInfos, seen, polls, launch, report, onceDone, onceM, hasIPv4, host, scans,
                    fn, cancelled, op, addr, lookupCtx, connVars, nsVars, ret >>

\* the host's interfaces change (an address is added, a link goes down)
IfaceChange(h) ==
    /\ h # host
    /\ host' = h
    /\ UNCHANGED << CustomDNSServer, setHist, gpuInfos, seen, polls, launch, report, onceVars, fn, cancelled, pc, op, addr, lookupCtx, connVars,
                    nsVars, prefVal, ret >>

(***************************************************************************)
(* The ordering step and the connector.                                    *)
(***************************************************************************)
\* mutant: the sorted slice is kept in a variable all calls share
Sort_SharedSlice(c) ==
    /\ pc[c] = "sort"
    /\ ips' = [d \in Calls |-> SliceStable(ips[c], prefVal[c])]
    /\ ci' = [ci EXCEPT ![c] = 1]
    /\ pc' = [pc EXCEPT ![c] = "conn_loop"]
    /\ UNCHANGED << globalVars, fn, cancelled, op, addr, lookupCtx, looked, tried,
                    nsVars, prefVal, ret >>

\* mutant: a comparator that holds moves an entry down by overwriting, the
\* entry it passes is lost and the moved one stands twice
Sort_Overwrite(c) ==
    /\ pc[c] = "sort"
    /\ LET sorted == SliceStable(ips[c], prefVal[c])
       IN ips' = [ips EXCEPT ![c] =
                    IF Len(sorted) >= 2 /\ Less(prefVal[c], ips[c][2], ips[c][1])
                    THEN [sorted EXCEPT ![2] = sorted[1]]
                    ELSE sorted]
    /\ ci' = [ci EXCEPT ![c] = 1]
    /\ pc' = [pc EXCEPT ![c] = "conn_loop"]
    /\ UNCHANGED << globalVars, fn, cancelled, op, addr, lookupCtx, looked, tried,
                    nsVars, prefVal, ret >>

\* mutant: the HTTP path dials the candidates in the order of the lookup
Sort_HTTPUnsorted(c) ==
    /\ pc[c] = "sort"
    /\ ips' = [ips EXCEPT ![c] = IF fn[c].path = "http" THEN @ ELSE SliceStable(@, prefVal[c])]
    /\ ci' = [ci EXCEPT ![c] = 1]
    /\ pc' = [pc EXCEPT ![c] = "conn_loop"]
    /\ UNCHANGED << globalVars, fn, cancelled, op, addr, lookupCtx, looked, tried,
                    nsVars, prefVal, ret >>

\* sort.SliceStable(ips, ...) with the preference just read
Sort(c) ==
    /\ pc[c] = "sort"
    /\ ips' = [ips EXCEPT ![c] = SliceStable(@, prefVal[c])]
    /\ ci' = [ci EXCEPT ![c] = 1]
    /\ pc' = [pc EXCEPT ![c] = "conn_loop"]
    /\ UNCHANGED << globalVars, fn, cancelled, op, addr, lookupCtx, looked, tried,
                    nsVars, prefVal, ret >>

\* mutant: the dial-context path uses the constant of the HTTP path
CandidateTimeout_HTTPConstant(f) == HTTPCandidateTimeout

\* the timeout of the fresh net.Dialer of one candidate
CandidateTimeout(f) == IF f.path = "http" THEN HTTPCandidateTimeout ELSE f.timeout

ConnAttempt(c, ip) == [ip |-> ip, out |-> "inflight", timeout |-> CandidateTimeout(fn[c])]

\* mutant: the loop stops one candidate early
ConnExhausted_OffByOne(i, n) == i >= n

\* the range loop over ips is exhausted
ConnExhausted(i, n) == i > n

\* mutant: the next two candidates are dialed together
ConnLoop_Racing(c) ==
    /\ pc[c] = "conn_loop"
    /\ IF ConnExhausted(ci[c], Len(ips[c]))
       THEN /\ ret' = [ret EXCEPT ![c] = [conn |-> NoConn, err |-> ErrDialAll]]
            /\ pc' = [pc EXCEPT ![c] = "done"]
            /\ tried' = tried
       ELSE /\ tried' = [tried EXCEPT ![c] =
                   IF ci[c] < Len(ips[c])
                   THEN @ \o << ConnAttempt(c, ips[c][ci[c]]),
                                ConnAttempt(c, ips[c][ci[c] + 1]) >>
                   ELSE Append(@, ConnAttempt(c, ips[c][ci[c]]))]
            /\ pc' = [pc EXCEPT ![c] = "conn_wait"]
            /\ ret' = ret
    /\ UNCHANGED << globalVars, fn, cancelled, op, addr, lookupCtx, looked, ips, ci,
                    nsVars, prefVal >>

\* mutant: at the end of the list the call returns neither a connection nor
\* an error
ConnLoop_SilentFailure(c) ==
    /\ pc[c] = "conn_loop"
    /\ IF ConnExhausted(ci[c], Len(ips[c]))
       THEN /\ ret' = [ret EXCEPT ![c] = [conn |-> NoConn, err |-> NoErr]]
            /\ pc' = [pc EXCEPT ![c] = "done"]
            /\ tried' = tried
       ELSE /\ tried' = [tried EXCEPT ![c] = Append(@, ConnAttempt(c, ips[c][ci[c]]))]
            /\ pc' = [pc EXCEPT ![c] = "conn_wait"]
            /\ ret' = ret
    /\ UNCHANGED << globalVars, fn, cancelled, op, addr, lookupCtx, looked, ips, ci,
                    nsVars, prefVal >>

\* one turn of the connect loop: the aggregate failure at the end of the
\* list, or the start of the stream dial to the next candidate
ConnLoop(c) ==
    /\ pc[c] = "conn_loop"
    /\ IF ConnExhausted(ci[c], Len(ips[c]))
       THEN /\ ret' = [ret EXCEPT ![c] = [conn |-> NoConn, err |-> ErrDialAll]]
            /\ pc' = [pc EXCEPT ![c] = "done"]
            /\ tried' = tried
       ELSE /\ tried' = [tried EXCEPT ![c] = Append(@, ConnAttempt(c, ips[c][ci[c]]))]
            /\ pc' = [pc EXCEPT ![c] = "conn_wait"]
            /\ ret' = ret
    /\ UNCHANGED << globalVars, fn, cancelled, op, addr, lookupCtx, looked, ips, ci,
                    nsVars, prefVal >>

\* mutant: a successful stream dial does not end the loop
ConnDone_KeepGoing(c, ok) ==
    /\ pc[c] = "conn_wait"
    /\ tried' = [tried EXCEPT ![c] = Settle(@, ok)]
    /\ ci' = [ci EXCEPT ![c] = @ + 1]
    /\ pc' = [pc EXCEPT ![c] = "conn_loop"]
    /\ ret' = ret
    /\ UNCHANGED << globalVars, fn, cancelled, op, addr, lookupCtx, looked, ips,
                    nsVars, prefVal >>

\* the stream dial returns: its connection is returned, or the loop goes on
ConnDone(c, ok) ==
    /\ pc[c] = "conn_wait"
    /\ ok => ~DialCtxDone(c)
    /\ tried' = [tried EXCEPT ![c] = Settle(@, ok)]
    /\ IF ok
       THEN /\ ret' = [ret EXCEPT ![c] = [conn |-> ips[c][ci[c]], err |-> NoErr]]
            /\ pc' = [pc EXCEPT ![c] = "done"]
            /\ ci' = ci
       ELSE /\ ci' = [ci EXCEPT ![c] = @ + 1]
            /\ pc' = [pc EXCEPT ![c] = "conn_loop"]
            /\ ret' = ret
    /\ UNCHANGED << globalVars, fn, cancelled, op, addr, lookupCtx, looked, ips,
                    nsVars, prefVal >>

\* the caller takes the result; the locals of the call are gone
Return(c) ==
    /\ pc[c] = "done"
    /\ pc' = [pc EXCEPT ![c] = "idle"]
    /\ op' = [op EXCEPT ![c] = "none"]
    /\ addr' = [addr EXCEPT ![c] = ""]
    /\ lookupCtx' = [lookupCtx EXCEPT ![c] = 0]
    /\ looked' = [looked EXCEPT ![c] = << >>]
    /\ ips' = [ips EXCEPT ![c] = << >>]
    /\ ci' = [ci EXCEPT ![c] = 0]
    /\ tried' = [tried EXCEPT ![c] = << >>]
    /\ nsSteps' = [nsSteps EXCEPT ![c] = 0]
    /\ dnsServer' = [dnsServer EXCEPT ![c] = EmptyStr]
    /\ nsIdx' = [nsIdx EXCEPT ![c] = 0]
    /\ nsLog' = [nsLog EXCEPT ![c] = << >>]
    /\ nsRet' = [nsRet EXCEPT ![c] = NoRet]
    /\ prefVal' = [prefVal EXCEPT ![c] = FALSE]
    /\ ret' = [ret EXCEPT ![c] = NoRet]
    /\ cancelled' = [cancelled EXCEPT ![c] = "no"]
    /\ UNCHANGED << globalVars, fn >>

(***************************************************************************)
(* The first revision of the package (part_000): SetCustomDNSServer only   *)
(* adds ":53", getCurrentDNSServer falls back to the first built-in        *)
(* nameserver, and GetCustomResolver always builds a custom resolver.  A   *)
(* call of its Dial is one step: the current nameserver, then the others.  *)
(***************************************************************************)
OldDNSServers == <<
    <<"1","1","4",".","1","1","4",".","1","1","4",".","1","1","4",":","5","3">>,
    <<"8",".","8",".","8",".","8",":","5","3">>,
    <<"8",".","8",".","4",".","4",":","5","3">>,
    <<"1",".","1",".","1",".","1",":","5","3">>,
    <<"2","2","3",".","5",".","5",".","5",":","5","3">>,
    <<"1","1","9",".","2","9",".","2","9",".","2","9",":","5","3">> >>

OldOverrideInputs == {
    EmptyStr,
    <<"9",".","9",".","9",".","9">>,
    <<"8",".","8",".","4",".","4",":","5","3">> }

\* SetCustomDNSServer of the first revision
OldSetCustomDNSServer(s) ==
    /\ CustomDNSServer' =
          IF s # EmptyStr
          THEN (IF ~Contains(s, <<":">>) THEN s \o Port53 ELSE s)
          ELSE CustomDNSServer
    /\ UNCHANGED << setHist, gpuInfos, seen, polls, launch, report, onceVars, host, fn, cancelled, pc, op, addr, lookupCtx,
                    connVars, nsVars, prefVal, ret >>

\* getCurrentDNSServer of the first revision
OldGetCurrentDNSServer ==
    IF CustomDNSServer # EmptyStr THEN CustomDNSServer ELSE OldDNSServers[1]

\* the error DialContext returns for a nameserver it cannot reach
DialErr(server) == <<"d", "i", "a", "l", " ", "u", "d", "p", " ">> \o server

\* the nameservers the Dial of the first revision dials while every dial
\* fails: the current one, then the others in list order
OldNsOrder(dns) == << dns >> \o SelectSeq(OldDNSServers, LAMBDA server : server # dns)

\* the err in scope at `return nil, err`: the one declared with the first
\* dial; each dial of the loop declares a conn and an err of its own
OldDialErr(order) == DialErr(order[1])

\* one call of the Dial of the first revision by caller c, whose first n
\* dials fail and whose next dial, if there is one, succeeds
OldResolverDial(c, n) ==
    LET dns == OldGetCurrentDNSServer
        order == OldNsOrder(dns)
        made == IF n < Len(order) THEN n + 1 ELSE n
    IN /\ n \in 0..Len(order)
       /\ dnsServer' = [dnsServer EXCEPT ![c] = dns]
       /\ nsSteps' = [nsSteps EXCEPT ![c] = 1]
       /\ nsIdx' = nsIdx
       /\ nsLog' = [nsLog EXCEPT ![c] =
                      [i \in 1..made |->
                          [NsAttempt(order[i]) EXCEPT !.out = IF i <= n THEN "fail" ELSE "ok"]]]
       /\ nsRet' = [nsRet EXCEPT ![c] =
                      IF n < Len(order)
                      THEN [conn |-> order[n + 1], err |-> NoErr]
                      ELSE [conn |-> NoConn, err |-> OldDialErr(order)]]
       /\ UNCHANGED << globalVars, fn, cancelled, pc, op, addr, lookupCtx, connVars, prefVal, ret >>

(***************************************************************************)
(* The detailed GPU information (package monitoring).  A vendor tool's     *)
(* output is the list of the utilization texts of its GPUs, or the one     *)
(* entry NoData when the tool is missing, failed or printed what does not  *)
(* unmarshal.  The                                                         *)
(* texts are over an alphabet without "." and exponents, so the numbers    *)
(* strconv.ParseFloat reads from them are integers.                        *)
(***************************************************************************)
vendorAMD == "amd"
vendorNVIDIA == "nvidia"
NoData == << <<"n", "o", " ", "d", "a", "t", "a">> >>

\* strings.TrimSuffix
TrimSuffix(s, suf) ==
    IF Len(s) >= Len(suf) /\ SubSeq(s, Len(s) - Len(suf) + 1, Len(s)) = suf
    THEN SubSeq(s, 1, Len(s) - Len(suf))
    ELSE s

Digits == {"0", "1", "2", "3", "4", "5", "6", "7", "8", "9"}
DigitVal(ch) ==
    CASE ch = "0" -> 0 [] ch = "1" -> 1 [] ch = "2" -> 2 [] ch = "3" -> 3
      [] ch = "4" -> 4 [] ch = "5" -> 5 [] ch = "6" -> 6 [] ch = "7" -> 7
      [] ch = "8" -> 8 [] ch = "9" -> 9

RECURSIVE DigitsValue(_)
DigitsValue(s) ==
    IF s = << >> THEN 0
    ELSE 10 * DigitsValue(SubSeq(s, 1, Len(s) - 1)) + DigitVal(s[Len(s)])

\* strconv.ParseFloat(s, 64) on a text of signs, digits and other characters:
\* an optional sign and at least one digit, anything else is a syntax error
ParseFloat(s) ==
    LET signed == s # << >> /\ Head(s) \in {"+", "-"}
        body == IF signed THEN Tail(s) ELSE s
    IN IF body # << >> /\ \A i \in 1..Len(body) : body[i] \in Digits
       THEN [ok |-> TRUE,
             val |-> IF signed /\ Head(s) = "-" THEN 0 - DigitsValue(body)
                     ELSE DigitsValue(body)]
       ELSE [ok |-> FALSE, val |-> 0]

\* parsePercentageValue of the NVIDIA parser ("25 %" -> 25.0)
parsePercentageValue(value) ==
    LET cleaned == TrimSpace(TrimSuffix(TrimSpace(value), <<"%">>))
        result == ParseFloat(cleaned)
    IN IF cleaned = EmptyStr THEN [val |-> 0, err |-> FALSE]
       ELSE IF ~result.ok THEN [val |-> 0, err |-> TRUE]
       ELSE [val |-> result.val, err |-> FALSE]

\* parseAMDPercentage of the ROCm parser ("25" -> 25.0)
parseAMDPercentage(value) ==
    LET cleaned == TrimSpace(TrimSuffix(TrimSpace(value), <<"%">>))
        result == ParseFloat(cleaned)
    IN IF cleaned = EmptyStr THEN [val |-> 0, err |-> FALSE]
       ELSE IF ~result.ok THEN [val |-> 0, err |-> TRUE]
       ELSE [val |-> result.val, err |-> FALSE]

\* NvidiaSMI.gatherDetailedInfo: the Utilization of each GPU is what
\* parsePercentageValue returned, its error dropped
gatherDetailedInfoNVIDIA(data) ==
    IF data = NoData THEN [err |-> TRUE, infos |-> << >>]
    ELSE [err |-> FALSE,
          infos |-> [i \in 1..Len(data) |-> parsePercentageValue(data[i]).val]]

\* ROCmSMI.gatherDetailedInfo: the Utilization of each card is what
\* parseAMDPercentage returned if it returned no error, else the zero value
gatherDetailedInfoAMD(data) ==
    IF data = NoData THEN [err |-> TRUE, infos |-> << >>]
    ELSE [err |-> FALSE,
          infos |-> [i \in 1..Len(data) |->
                       LET usage == parseAMDPercentage(data[i])
                       IN IF ~usage.err THEN usage.val ELSE 0]]

\* GetDetailedGPUInfo with vendorType and the output the vendor's tool gives
GetDetailedGPUInfo(vendorType, data) ==
    /\ gpuInfos' =
          LET r == CASE vendorType = vendorAMD -> gatherDetailedInfoAMD(data)
                     [] vendorType = vendorNVIDIA -> gatherDetailedInfoNVIDIA(data)
          IN [vendor |-> vendorType, data |-> data, err |-> r.err, infos |-> r.infos]
    /\ UNCHANGED << CustomDNSServer, setHist, seen, polls, launch, report, onceVars, host, fn, cancelled, pc, op, addr,
                    lookupCtx, connVars, nsVars, prefVal, ret >>

\* what GetDetailedGPUInfo returns for the vendor and its tool's output
DetailedGPUInfoOf(vendorType, data) ==
    LET r == CASE vendorType = vendorAMD -> gatherDetailedInfoAMD(data)
               [] vendorType = vendorNVIDIA -> gatherDetailedInfoNVIDIA(data)
    IN [vendor |-> vendorType, data |-> data, err |-> r.err, infos |-> r.infos]

RECURSIVE SumOf(_)
SumOf(list) == IF list = << >> THEN 0 ELSE Head(list) + SumOf(Tail(list))

\* the else branch of GenerateReport: totalGPUUsage / float64(len(gpuInfo)),
\* a float64 division, which for 0.0 / 0 gives NaN and does not panic
GpuSection(gpuInfo) ==
    [gpu |-> "detailed", count |-> Len(gpuInfo), sum |-> SumOf(gpuInfo),
     divided |-> TRUE, nan |-> Len(gpuInfo) = 0]

\* json.Marshal returns an error and no bytes for a float64 that is NaN
MarshalFails(section) == section.nan

\* GenerateReport, its GPU part: enableGPU is flags.EnableGPU, names tells
\* whether the fallback GetDetailedGPUHost returned names
GenerateReport(enableGPU, vendorType, data, names) ==
    LET g == DetailedGPUInfoOf(vendorType, data)
        section ==
            IF ~enableGPU
            THEN [gpu |-> "none", count |-> 0, sum |-> 0, divided |-> FALSE, nan |-> FALSE]
            ELSE IF g.err
            THEN [gpu |-> IF names THEN "models" ELSE "none", count |-> 0, sum |-> 0,
                  divided |-> FALSE, nan |-> FALSE]
            ELSE GpuSection(g.infos)
    IN /\ gpuInfos' = IF enableGPU THEN g ELSE gpuInfos
       /\ report' = [called |-> TRUE, gpu |-> section.gpu, count |-> section.count,
                     sum |-> section.sum, divided |-> section.divided, nan |-> section.nan,
                     produced |-> ~MarshalFails(section)]
       /\ UNCHANGED << CustomDNSServer, setHist, seen, polls, launch, onceVars, host, fn,
                       cancelled, pc, op, addr, lookupCtx, connVars, nsVars, prefVal, ret >>

UtilAlphabet == {"0", "1", "-", "%", " ", "a"}
UtilExamples == {
    <<"2", "5", " ", "%">>,
    <<"1", "0", "0", " ", "%">>,
    <<"1", "5", "0", " ", "%">>,
    <<"-", "5">>,
    <<"N", "/", "A">> }
UtilTexts == SeqsUpTo(UtilAlphabet, MaxStrLen) \cup UtilExamples
\* a tool's outputs: none, no GPU, one GPU with any text, two GPUs with the
\* texts of the examples
GpuData ==
    {NoData, << >>} \cup {<< t >> : t \in UtilTexts}
        \cup {<< t, u >> : t \in UtilExamples, u \in UtilExamples}

(***************************************************************************)
(* WarnKomariRunning (package cmd, Windows): every tick of the ticker is   *)
(* one poll.  The poll enumerates the active sessions, launches the helper *)
(* in each session it does not know, and forgets the sessions that are no  *)
(* longer active.  One goroutine runs the loop, the mutex orders nothing.  *)
(***************************************************************************)
\* session ids
Sessions == {1, 2}

\* what enumerateActiveSessions may return without an error
CurrentLists == SeqsUpTo(Sessions, Cardinality(Sessions))

SetOf(list) == {list[i] : i \in 1..Len(list)}

\* mutant: no session counts as known
Known_Never(s, sid) == FALSE

\* _, known := seen[sid]
Known(s, sid) == sid \in s

\* mutant: no session is ever forgotten
Cleanup_None(s, currentSet) == s

\* for sid := range seen { if _, ok := currentSet[sid]; !ok { delete(seen, sid) } }
Cleanup(s, currentSet) == {sid \in s : sid \in currentSet}

\* the loop over current from its entry i on: a session not known is marked
\* seen and the helper is launched in it; okSids are the sessions in which
\* a launch succeeds
RECURSIVE LaunchLoop(_, _, _, _, _)
LaunchLoop(current, i, s, launches, okSids) ==
    IF i > Len(current) THEN [seen |-> s, launches |-> launches]
    ELSE LET sid == current[i] IN
         IF ~Known(s, sid)
         THEN LaunchLoop(current, i + 1, s \cup {sid},
                         Append(launches, [sid |-> sid, ok |-> sid \in okSids]), okSids)
         ELSE LaunchLoop(current, i + 1, s, launches, okSids)

\* one turn of `for range ticker.C`: the enumeration fails (err) or returns
\* current
WarnPoll(err, current, okSids) ==
    /\ Len(polls) < MaxPolls
    /\ IF err
       THEN /\ seen' = seen
            /\ polls' = Append(polls, [err |-> TRUE, current |-> << >>, launches |-> << >>,
                                       before |-> seen])
       ELSE LET r == LaunchLoop(current, 1, seen, << >>, okSids)
            IN /\ seen' = Cleanup(r.seen, SetOf(current))
               /\ polls' = Append(polls, [err |-> FALSE, current |-> current,
                                          launches |-> r.launches, before |-> seen])
    /\ UNCHANGED << CustomDNSServer, setHist, gpuInfos, launch, report, onceVars, host, fn,
                    cancelled, pc, op, addr, lookupCtx, connVars, nsVars, prefVal, ret >>

(***************************************************************************)
(* launchSelfInSession: the command line of the helper.  The parent's      *)
(* arguments are os.Args[1:]; the helper reads the command line as Windows *)
(* programs do: blanks outside double quotes separate the arguments, the   *)
(* quotes are not part of them.                                            *)
(***************************************************************************)
ShowWarning == <<"-", "-", "s", "h", "o", "w", "-", "w", "a", "r", "n", "i", "n", "g">>

\* mutant: nothing is dropped from the parent's arguments
filterArgs_KeepAll(args, drop) == args

\* filterArgs: the arguments that are not equal to drop, in their order
filterArgs(args, drop) == SelectSeq(args, LAMBDA a : a # drop)

\* strings.ContainsAny(s, " \t\"")
ContainsBlankOrQuote(s) == \E i \in 1..Len(s) : s[i] \in {" ", "\t", "\""}

\* strings.ReplaceAll(s, "\"", "\\\"")
RECURSIVE EscapeQuotes(_)
EscapeQuotes(s) ==
    IF s = << >> THEN << >>
    ELSE (IF Head(s) = "\"" THEN <<"\\", "\"">> ELSE << Head(s) >>) \o EscapeQuotes(Tail(s))

quoteIfNeeded(s) ==
    IF ContainsBlankOrQuote(s) THEN <<"\"">> \o EscapeQuotes(s) \o <<"\"">> ELSE s

\* strings.Join(elems, " ")
RECURSIVE Join(_)
Join(elems) ==
    IF elems = << >> THEN << >>
    ELSE IF Len(elems) = 1 THEN elems[1]
    ELSE elems[1] \o <<" ">> \o Join(Tail(elems))

\* the arguments a program reads from the command line s from its
\* character i on: cur is the argument begun (started tells an empty one
\* from none), quoted tells whether a double quote is open
RECURSIVE ArgvFrom(_, _, _, _, _, _)
ArgvFrom(s, i, cur, started, quoted, out) ==
    IF i > Len(s) THEN (IF started THEN Append(out, cur) ELSE out)
    ELSE IF s[i] = "\\" /\ i < Len(s) /\ s[i + 1] = "\""
    THEN ArgvFrom(s, i + 2, Append(cur, "\""), TRUE, quoted, out)
    ELSE IF s[i] = "\""
    THEN ArgvFrom(s, i + 1, cur, TRUE, ~quoted, out)
    ELSE IF s[i] \in {" ", "\t"} /\ ~quoted
    THEN ArgvFrom(s, i + 1, << >>, FALSE, FALSE, IF started THEN Append(out, cur) ELSE out)
    ELSE ArgvFrom(s, i + 1, Append(cur, s[i]), TRUE, quoted, out)

Argv(s) == ArgvFrom(s, 1, << >>, FALSE, FALSE, << >>)

\* what os.Executable returns: a path without a blank, a path with one
ExePaths == {
    <<"k", ".", "e", "x", "e">>,
    <<"C", ":", "\\", "P", " ", "F", "\\", "k", ".", "e", "x", "e">> }

\* the parent's arguments: the flag, flags and values without a blank, a
\* value with a blank
ParentArgs == {
    ShowWarning,
    <<"-", "e">>,
    <<"u", "r", "l">>,
    <<"-", "-", "s", "h", "o", "w">>,
    <<"C", ":", "\\", "P", " ", "F">> }

\* launchSelfInSession up to the command line, in a process started with
\* the arguments args from the executable exePath
launchSelfInSession(exePath, args, extraArgs) ==
    /\ launch' =
          LET baseArgs == filterArgs(args, ShowWarning)
              fullArgs == (<< quoteIfNeeded(exePath) >> \o baseArgs) \o extraArgs
          IN [called |-> TRUE, args |-> args, fullArgs |-> fullArgs, cmdline |-> Join(fullArgs)]
    /\ UNCHANGED << CustomDNSServer, setHist, gpuInfos, seen, polls, report, onceVars, host,
                    fn, cancelled, pc, op, addr, lookupCtx, connVars, nsVars, prefVal, ret >>

(***************************************************************************)
(* Specifications.                                                         *)
(***************************************************************************)
\* the caller of the dial specification
Dialer == "c1"

\* One caller configures the override, builds dial functions and dials
\* through them.
Next ==
    \/ \E s \in OverrideInputs : SetCustomDNSServer(s)
    \/ \E t \in TimeoutInputs : GetHTTPClient(Dialer, t)
    \/ \E t \in TimeoutInputs : GetNetDialer(Dialer, t)
    \/ \E t \in TimeoutInputs : GetDialContext(Dialer, t)
    \/ \E a \in Addrs : DialStart(Dialer, a)
    \/ SplitHostPort(Dialer)
    \/ \E r \in LookupResults \cup {<< >>} : LookupDefault(Dialer, r)
    \/ ResolverDial(Dialer)
    \/ NsCustom(Dialer)
    \/ \E ok \in BOOLEAN : NsCustomDone(Dialer, ok)
    \/ NsLoop(Dialer)
    \/ \E ok \in BOOLEAN : NsLoopDone(Dialer, ok)
    \/ \E r \in LookupResults \cup {<< >>} : LookupCustom(Dialer, r)
    \/ OnceFast(Dialer)
    \/ OnceLock(Dialer)
    \/ OnceCheck(Dialer)
    \/ OnceScan(Dialer)
    \/ OnceStore(Dialer)
    \/ OnceUnlock(Dialer)
    \/ PreferReturn(Dialer)
    \/ Sort(Dialer)
    \/ ConnLoop(Dialer)
    \/ \E ok \in BOOLEAN : ConnDone(Dialer, ok)
    \/ Return(Dialer)

Spec == Init /\ [][Next]_vars

\* The same caller, who may also cancel the context of a dial under way.
NextCancel == Next \/ Cancel(Dialer)

SpecCancel == Init /\ [][NextCancel]_vars

\* Two callers dial through functions GetDialContext returned, at the same
\* time, in any interleaving of their steps.  The first is the caller of
\* Spec, with every choice of Spec open to it but the timeout and the target
\* address; the second runs beside it through the same code with fewer
\* choices: its nameserver dials fail, its default lookup fails or returns
\* one list.  The host has a loopback interface and one with both families.
Other == "c2"

OtherLookup == <<"v6a", "v4a">>

ConcOverride == <<"9", ".", "9", ".", "9", ".", "9">>

InitConc ==
    /\ ZeroState
    /\ host = << Iface(TRUE, TRUE, <<"lo4", "lo6">>), Iface(TRUE, FALSE, <<"v6", "v4">>) >>

NextConc ==
    \/ SetCustomDNSServer(ConcOverride)
    \/ \E c \in {Dialer, Other} :
          \/ GetDialContext(c, 0)
          \/ DialStart(c, GoodAddr)
          \/ SplitHostPort(c)
          \/ ResolverDial(c)
          \/ NsCustom(c)
          \/ NsLoop(c)
          \/ OnceFast(c)
          \/ OnceLock(c)
          \/ OnceCheck(c)
          \/ OnceScan(c)
          \/ OnceStore(c)
          \/ OnceUnlock(c)
          \/ PreferReturn(c)
          \/ Sort(c)
          \/ ConnLoop(c)
          \/ \E ok \in BOOLEAN : ConnDone(c, ok)
          \/ Return(c)
    \/ \E r \in LookupResults \cup {<< >>} : LookupDefault(Dialer, r)
    \/ \E r \in LookupResults \cup {<< >>} : LookupCustom(Dialer, r)
    \/ \E ok \in BOOLEAN : NsCustomDone(Dialer, ok)
    \/ \E ok \in BOOLEAN : NsLoopDone(Dialer, ok)
    \/ \E r \in {<< >>, OtherLookup} : LookupDefault(Other, r)
    \/ LookupCustom(Other, << >>)
    \/ NsCustomDone(Other, FALSE)
    \/ NsLoopDone(Other, FALSE)

SpecConc == InitConc /\ [][NextConc]_vars

\* The first revision: overrides are set and the resolver's Dial is called,
\* with any number of leading dials failing.
NextOld ==
    \/ \E s \in OldOverrideInputs : OldSetCustomDNSServer(s)
    \/ \E n \in 0..(Len(OldDNSServers) + 1) : OldResolverDial(Dialer, n)

SpecOld == Init /\ [][NextOld]_vars

\* GetDetailedGPUInfo as a function of the vendor and of its tool's output:
\* the first call in the process.
NextGpu ==
    /\ gpuInfos = NoGpu
    /\ \E v \in {vendorAMD, vendorNVIDIA}, data \in GpuData : GetDetailedGPUInfo(v, data)

SpecGpu == Init /\ [][NextGpu]_vars

\* GenerateReport as a function of the flag, the vendor and its tool's
\* output: the first report of the process.
NextReport ==
    /\ ~report.called
    /\ \E enableGPU \in BOOLEAN, v \in {vendorAMD, vendorNVIDIA}, data \in GpuData,
          names \in BOOLEAN :
          /\ (~enableGPU => v = vendorAMD /\ data = NoData)
          /\ (~(enableGPU /\ data = NoData) => ~names)
          /\ GenerateReport(enableGPU, v, data, names)

SpecReport == Init /\ [][NextReport]_vars

\* The three factories, called by any caller with any timeout, before and
\* after an override is configured.
NextFactory ==
    \/ SetCustomDNSServer(ConcOverride)
    \/ \E c \in Calls, t \in TimeoutInputs :
          \/ GetHTTPClient(c, t)
          \/ GetNetDialer(c, t)
          \/ GetDialContext(c, t)

SpecFactory == Init /\ [][NextFactory]_vars

\* The two dial paths on the same inputs: the first caller dials through
\* the HTTP client's transport; when its dial has returned, the second dials
\* the same target through the function GetDialContext returned and its
\* lookup returns what the first one's returned.  The outcome of every
\* candidate dial is open.
NextPair ==
    \/ GetHTTPClient(Dialer, 0)
    \/ GetDialContext(Other, 0)
    \/ \E a \in Addrs : DialStart(Dialer, a)
    \/ pc[Dialer] = "done" /\ DialStart(Other, addr[Dialer])
    \/ \E r \in LookupResults \cup {<< >>} : LookupDefault(Dialer, r)
    \/ LookupDefault(Other, looked[Dialer])
    \/ \E c \in {Dialer, Other} :
          \/ SplitHostPort(c)
          \/ OnceFast(c)
          \/ OnceLock(c)
          \/ OnceCheck(c)
          \/ OnceScan(c)
          \/ OnceStore(c)
          \/ OnceUnlock(c)
          \/ PreferReturn(c)
          \/ Sort(c)
          \/ ConnLoop(c)
          \/ \E ok \in BOOLEAN : ConnDone(c, ok)
    \/ pc[Dialer] = "done" /\ Return(Other)
    \/ pc[Other] = "idle" /\ Return(Dialer)

SpecPair == Init /\ [][NextPair]_vars

\* Concurrent callers of preferIPv4First, while the host's interfaces may
\* change.
NextOnce ==
    \/ \E c \in Calls : PreferStart(c)
    \/ \E c \in Calls : OnceFast(c)
    \/ \E c \in Calls : OnceLock(c)
    \/ \E c \in Calls : OnceCheck(c)
    \/ \E c \in Calls : OnceScan(c)
    \/ \E c \in Calls : OnceStore(c)
    \/ \E c \in Calls : OnceUnlock(c)
    \/ \E c \in Calls : PreferReturn(c)
    \/ \E c \in Calls : Return(c)
    \/ \E h \in HostConfigs : IfaceChange(h)

SpecOnce == Init /\ [][NextOnce]_vars

\* The interface scan as a function of the interface table: one caller calls
\* preferIPv4First on a host whose table is any of ScanHosts and stays as
\* it is.
InitScan == ZeroState /\ host \in ScanHosts

NextScan ==
    \/ PreferStart(Dialer)
    \/ OnceFast(Dialer)
    \/ OnceLock(Dialer)
    \/ OnceCheck(Dialer)
    \/ OnceScan(Dialer)
    \/ OnceStore(Dialer)
    \/ OnceUnlock(Dialer)
    \/ PreferReturn(Dialer)
    \/ Return(Dialer)

SpecScan == InitScan /\ [][NextScan]_vars

\* The normaliser as a function of its argument: the first call of
\* SetCustomDNSServer in the process, with any argument of NormInputs.
NextNorm == setHist = << >> /\ \E s \in NormInputs : SetCall(s)

SpecNorm == Init /\ [][NextNorm]_vars

\* An override is configured with any argument of NormInputs, and then
\* SetCustomDNSServer is called with the override stored.
NextReset ==
    \/ CustomDNSServer = EmptyStr /\ \E s \in NormInputs : SetCustomDNSServer(s)
    \/ CustomDNSServer # EmptyStr /\ setHist = << >> /\ SetCall(CustomDNSServer)

SpecReset == Init /\ [][NextReset]_vars

\* SetCustomDNSServer called again and again, with any argument of SetInputs.
NextSet == \E s \in SetInputs : SetCall(s)

SpecSet == Init /\ [][NextSet]_vars

\* The ordering step as a function of the resolved list and the preference:
\* one dial, on either path, stands just before its ordering step; the
\* lookup has returned any list of SortInputs and preferIPv4First has
\* returned either value.
SortInputs == SeqsUpTo(SortIPs, MaxSortLen) \ {<< >>}

InitSort ==
    /\ CustomDNSServer = EmptyStr
    /\ setHist = << >>
    /\ gpuInfos = NoGpu
    /\ seen = {}
    /\ polls = << >>
    /\ launch = NoLaunch
    /\ report = NoReport
    /\ onceDone = TRUE
    /\ onceM = "free"
    /\ hasIPv4 \in BOOLEAN
    /\ host = << >>
    /\ scans = << hasIPv4 >>
    /\ returned = {[v |-> hasIPv4, now |-> FALSE]}
    /\ \E path \in {"http", "dialctx"}, r \in SortInputs :
          LET t == IF path = "http" THEN HTTPDefaultTimeout ELSE DialContextDefaultTimeout
              me(x, zero) == [c \in Calls |-> IF c = Dialer THEN x ELSE zero]
          IN /\ fn = me([path |-> path, resolver |-> "default", timeout |-> t,
                         override |-> FALSE], NoFn)
             /\ lookupCtx = me(IF path = "dialctx" THEN t ELSE 0, 0)
             /\ looked = me(r, << >>)
             /\ ips = me(r, << >>)
             /\ pc = me("sort", "idle")
             /\ op = me("dial", "none")
             /\ addr = me(GoodAddr, "")
             /\ prefVal = me(hasIPv4, FALSE)
    /\ ci = [c \in Calls |-> 0]
    /\ tried = [c \in Calls |-> << >>]
    /\ nsSteps = [c \in Calls |-> 0]
    /\ dnsServer = [c \in Calls |-> EmptyStr]
    /\ nsIdx = [c \in Calls |-> 0]
    /\ nsLog = [c \in Calls |-> << >>]
    /\ nsRet = [c \in Calls |-> NoRet]
    /\ ret = [c \in Calls |-> NoRet]
    /\ cancelled = [c \in Calls |-> "no"]

NextSort == Sort(Dialer)

SpecSort == InitSort /\ [][NextSort]_vars

\* WarnKomariRunning from its start: the seen set is empty, and every poll
\* fails or returns any list of active sessions, with any launch failing.
InitWarn == ZeroState /\ host = << >>

NextWarn ==
    \/ WarnPoll(TRUE, << >>, {})
    \/ \E current \in CurrentLists, okSids \in SUBSET Sessions : WarnPoll(FALSE, current, okSids)

SpecWarn == InitWarn /\ [][NextWarn]_vars

\* The helper launch as a function of the parent's executable path and
\* arguments: the first launch of the process, as WarnKomariRunning makes it.
NextLaunch ==
    /\ ~launch.called
    /\ \E exePath \in ExePaths, args \in SeqsUpTo(ParentArgs, MaxArgs) :
          launchSelfInSession(exePath, args, << ShowWarning >>)

SpecLaunch == InitWarn /\ [][NextLaunch]_vars

\* The ordering step and the connect loop after it, for any list of
\* SortInputs and any outcome of each candidate dial.
NextTry ==
    \/ Sort(Dialer)
    \/ ConnLoop(Dialer)
    \/ \E ok \in BOOLEAN : ConnDone(Dialer, ok)

SpecTry == InitSort /\ [][NextTry]_vars


(***************************************************************************)
(* Properties.                                                             *)
(***************************************************************************)
\* positions inside one invocation of the resolver's Dial
NsPcs == {"ns_custom", "ns_custom_wait", "ns_loop", "ns_loop_wait"}

\* the resolver's Dial has returned to the resolving library
NsReturned(c) == pc[c] = "lookup" /\ nsSteps[c] >= 1

\* an invocation of the resolver's Dial is under way or has just returned
InNsStep(c) == pc[c] \in NsPcs \/ NsReturned(c)

\* the fallback list without the entry equal to the override
Fallbacks(dns) == SelectSeq(DNSServers, LAMBDA x : x # dns)

ServersOf(log) == [i \in 1..Len(log) |-> log[i].server]

AllFailed(log) == \A i \in 1..Len(log) : log[i].out = "fail"

InFlight(log) == Cardinality({i \in 1..Len(log) : log[i].out = "inflight"})

C2_OverrideFirst ==
    \A c \in Calls :
        (InNsStep(c) /\ dnsServer[c] # EmptyStr) =>
            /\ nsLog[c] # << >> => nsLog[c][1].server = dnsServer[c]
            /\ Len(nsLog[c]) >= 2 => nsLog[c][1].out = "fail"
            /\ pc[c] \in {"ns_loop", "ns_loop_wait"} =>
                   (nsLog[c] # << >> /\ nsLog[c][1].out = "fail")
            /\ (nsLog[c] # << >> /\ nsLog[c][1].out = "ok") =>
                   /\ Len(nsLog[c]) = 1
                   /\ NsReturned(c)
                   /\ nsRet[c] = [conn |-> dnsServer[c], err |-> NoErr]
            /\ \A i \in 1..Len(nsLog[c]) : nsLog[c][i].timeout = NsDialTimeout

\* the override's dial succeeded and the dial step returned its connection
C2_Witness ==
    /\ NsReturned(Dialer)
    /\ dnsServer[Dialer] # EmptyStr
    /\ nsRet[Dialer].conn = dnsServer[Dialer]
    /\ Len(nsLog[Dialer]) = 1

\* C3: within one nameserver dial step no endpoint is dialed twice, whatever
\* the override is; in particular an override equal to a fallback entry is
\* dialed once.
C3_NoRepeatedNameserver ==
    \A c \in Calls :
        \A i, j \in 1..Len(nsLog[c]) :
            i # j => nsLog[c][i].server # nsLog[c][j].server

\* the override is a fallback entry, its dial failed, and the loop went
\* through the whole list
C3_Witness ==
    /\ NsReturned(Dialer)
    /\ \E k \in 1..Len(DNSServers) : DNSServers[k] = dnsServer[Dialer]
    /\ nsRet[Dialer].err = ErrNoDNS
    /\ Len(nsLog[Dialer]) = Len(DNSServers)

\* C4: when the override's dial has failed, the fallback nameservers are
\* dialed in the order of DNSServers with the override left out, every dial
\* before the last one has failed, and a dial that succeeds is the last one:
\* its connection is what the dial step returns.
C4_FallbackOrder ==
    \A c \in Calls :
        (InNsStep(c) /\ dnsServer[c] # EmptyStr /\ Len(nsLog[c]) >= 2) =>
            LET log == nsLog[c]
                fb == Fallbacks(dnsServer[c])
            IN  /\ Len(log) - 1 <= Len(fb)
                /\ \A i \in 2..Len(log) : log[i].server = fb[i - 1]
                /\ \A i \in 1..(Len(log) - 1) : log[i].out = "fail"
                /\ log[Len(log)].out = "ok" =>
                       /\ NsReturned(c)
                       /\ nsRet[c] = [conn |-> log[Len(log)].server, err |-> NoErr]
                /\ nsRet[c].conn # NoConn =>
                       /\ log[Len(log)].out = "ok"
                       /\ nsRet[c].conn = log[Len(log)].server

\* the override and the first two fallback entries failed, the third
\* fallback entry succeeded and its connection was returned
C4_Witness ==
    /\ NsReturned(Dialer)
    /\ Len(nsLog[Dialer]) = 4
    /\ nsLog[Dialer][1].server = dnsServer[Dialer]
    /\ nsRet[Dialer].conn = Fallbacks(dnsServer[Dialer])[3]

\* C5: the dial step returns the "no available DNS server" error exactly
\* when the override and every other fallback entry have each been dialed
\* once, in order, and all have failed; it then returns no connection.
C5_AllNameserversFail ==
    \A c \in Calls :
        (NsReturned(c) /\ dnsServer[c] # EmptyStr) =>
            /\ nsRet[c].err = ErrNoDNS =>
                   /\ nsRet[c].conn = NoConn
                   /\ ServersOf(nsLog[c]) = << dnsServer[c] >> \o Fallbacks(dnsServer[c])
                   /\ AllFailed(nsLog[c])
            /\ AllFailed(nsLog[c]) => nsRet[c] = [conn |-> NoConn, err |-> ErrNoDNS]

\* an override outside the fallback list and all ten fallback entries failed
C5_Witness ==
    /\ NsReturned(Dialer)
    /\ nsRet[Dialer].err = ErrNoDNS
    /\ Len(nsLog[Dialer]) = Len(DNSServers) + 1


\* C6: in both dial paths the candidates are dialed one per position of the
\* ordered list, in order, every dial before the last one has failed, and
\* the first dial that succeeds ends the call: the call returns the
\* connection to that candidate and dials none after it.
C6_FirstReachable ==
    \A c \in Calls :
        op[c] = "dial" =>
            LET t == tried[c] IN
            /\ Len(t) <= Len(ips[c])
            /\ \A i \in 1..Len(t) : t[i].ip = ips[c][i]
            /\ \A i \in 1..(Len(t) - 1) : t[i].out = "fail"
            /\ (t # << >> /\ t[Len(t)].out = "ok") =>
                   /\ pc[c] = "done"
                   /\ ret[c] = [conn |-> ips[c][Len(t)], err |-> NoErr]
            /\ ret[c].conn # NoConn =>
                   /\ t # << >>
                   /\ t[Len(t)].out = "ok"
                   /\ ret[c].conn = t[Len(t)].ip

\* the function GetDialContext returned found candidate 1 unreachable and
\* returned the connection to candidate 2
C6_Witness ==
    /\ fn[Dialer].path = "dialctx"
    /\ pc[Dialer] = "done"
    /\ Len(tried[Dialer]) = 2
    /\ tried[Dialer][1].out = "fail"
    /\ ips[Dialer][1] # ips[Dialer][2]
    /\ ret[Dialer].conn = ips[Dialer][2]

\* C7: in both dial paths a call returns the aggregate "failed to dial"
\* error exactly when every candidate of the ordered list has been dialed
\* once, in order, and every dial has failed; it then returns no connection.
C7_AllUnreachable ==
    \A c \in Calls :
        (op[c] = "dial" /\ pc[c] = "done") =>
            /\ ret[c].err = ErrDialAll =>
                   /\ ret[c].conn = NoConn
                   /\ [i \in 1..Len(tried[c]) |-> tried[c][i].ip] = ips[c]
                   /\ AllFailed(tried[c])
            /\ (tried[c] # << >> /\ AllFailed(tried[c])) =>
                   ret[c] = [conn |-> NoConn, err |-> ErrDialAll]

\* the HTTP transport's dial went through two candidates, both unreachable
C7_Witness ==
    /\ fn[Dialer].path = "http"
    /\ pc[Dialer] = "done"
    /\ ret[Dialer].err = ErrDialAll
    /\ Len(tried[Dialer]) = 2

\* C8: within one call at most one dial, to a nameserver or to a candidate,
\* is in flight at any time; it is the last one started, and the call is
\* waiting for it.
C8_Sequential ==
    \A c \in Calls :
        /\ InFlight(nsLog[c]) + InFlight(tried[c]) <= 1
        /\ InFlight(tried[c]) = 1 <=> pc[c] = "conn_wait"
        /\ InFlight(nsLog[c]) = 1 <=> pc[c] \in {"ns_custom_wait", "ns_loop_wait"}
        /\ \A i \in 1..(Len(tried[c]) - 1) : tried[c][i].out # "inflight"
        /\ \A i \in 1..(Len(nsLog[c]) - 1) : nsLog[c][i].out # "inflight"

\* the second candidate's dial is in flight after the first one's has failed,
\* in a call whose lookup went through the nameserver dial step
C8_Witness ==
    /\ pc[Dialer] = "conn_wait"
    /\ nsSteps[Dialer] >= 1
    /\ Len(tried[Dialer]) = 2
    /\ tried[Dialer][1].out = "fail"
    /\ tried[Dialer][2].out = "inflight"

\* C9: under any interleaving of callers of preferIPv4First the interface
\* scan runs at most once, every value returned is the result of that one
\* scan, and a caller that has left Once.Do finds the result published.
C9_ScanOnce ==
    /\ Len(scans) <= 1
    /\ \A r \in returned : scans # << >> /\ r.v = scans[1]
    /\ \A c \in Calls :
           pc[c] = "once_read" => (onceDone /\ scans # << >> /\ hasIPv4 = scans[1])

\* one caller ran the scan and returned, while a concurrent first caller,
\* which had found done unset, now holds the mutex and will find done set
C9_Witness ==
    \E a, b \in Calls :
        /\ a # b
        /\ op[a] = "prefer" /\ pc[a] = "done"
        /\ op[b] = "prefer" /\ pc[b] = "once_check"
        /\ onceDone

\* C10: every call of preferIPv4First in the process returns the same value,
\* the cached one, also when the host's interfaces have changed since.
C10_SameValue ==
    /\ Cardinality({r.v : r \in returned}) <= 1
    /\ \A r \in returned : r.v = hasIPv4

\* a call returned the cached value at a moment when a scan of the
\* interfaces would have given the other one
C10_Witness ==
    /\ \E r \in returned : r.v # r.now
    /\ \E c \in Calls : op[c] = "prefer" /\ pc[c] = "done" /\ prefVal[c] # ScanIfaces(host, 1)

(***************************************************************************)
(* The interface scan.                                                     *)
(***************************************************************************)
\* an up, non-loopback interface of h has an address that is IPv4
AnyIPv4(h) ==
    \E i \in 1..Len(h) :
        /\ h[i].up /\ ~h[i].loopback
        /\ \E j \in 1..Len(h[i].addrs) : IpTo4(h[i].addrs[j])

\* an up, non-loopback interface of h has an address that is IPv4 and is not
\* a loopback address
UsableIPv4(h) ==
    \E i \in 1..Len(h) :
        /\ h[i].up /\ ~h[i].loopback
        /\ \E j \in 1..Len(h[i].addrs) :
               LET a == h[i].addrs[j] IN ~IpIsNil(a) /\ ~IpIsLoopback(a) /\ IpTo4(a)

\* a direct call of preferIPv4First by c has returned
PreferDone(c) == op[c] = "prefer" /\ pc[c] = "done"

\* C11, as stated: preferIPv4First returns true whenever an up, non-loopback
\* interface has an IPv4 address at the time of the scan, and false when no
\* such interface has one.
C11_AnyIPv4Address ==
    \A c \in Calls : PreferDone(c) => prefVal[c] = AnyIPv4(host)

\* C11, amended: preferIPv4First returns true exactly when an up,
\* non-loopback interface has an IPv4 address that is not itself a loopback
\* address (an address of 127.0.0.0/8 on such an interface does not count).
C11_NonLoopbackIPv4Address ==
    \A c \in Calls : PreferDone(c) => prefVal[c] = UsableIPv4(host)

\* the scan passed over a down interface that holds an IPv4 address and
\* returned true for the interface after it
C11_Witness ==
    \E c \in Calls :
        /\ PreferDone(c) /\ prefVal[c]
        /\ Len(host) = 2 /\ ~host[1].up /\ host[1].addrs = <<"v4">>

(***************************************************************************)
(* The ordering step.                                                      *)
(***************************************************************************)
\* the string parses as an address of the family
IsV4(ip) == ~ParseFails(ip) /\ IsTo4(ip)
IsV6(ip) == ~ParseFails(ip) /\ ~IsTo4(ip)

\* the ordering step of c's dial has run, no candidate is dialed yet
Ordered(c) == op[c] = "dial" /\ pc[c] = "conn_loop" /\ ci[c] = 1 /\ tried[c] = << >>

\* C12: for every resolved list, lists with unparseable entries included,
\* after the ordering step every IPv4 candidate precedes every IPv6 candidate
\* when the preference is IPv4, and every IPv6 candidate precedes every IPv4
\* candidate when the preference is IPv6.
C12_FamilyOrder ==
    \A c \in Calls : Ordered(c) =>
        \A i, j \in 1..Len(ips[c]) : i < j =>
            IF prefVal[c] THEN ~(IsV6(ips[c][i]) /\ IsV4(ips[c][j]))
            ELSE ~(IsV4(ips[c][i]) /\ IsV6(ips[c][j]))

\* C13: the ordering step is stable: two candidates of the same family
\* stand after the step in the order the lookup gave them, so the IPv4
\* candidates, read in order, are the same before and after, and so are the
\* IPv6 candidates.
C13_Stable ==
    \A c \in Calls : Ordered(c) =>
        /\ SelectSeq(ips[c], IsV4) = SelectSeq(looked[c], IsV4)
        /\ SelectSeq(ips[c], IsV6) = SelectSeq(looked[c], IsV6)

\* the step moved two IPv4 candidates in front of two IPv6 candidates and
\* kept each pair in its order
C13_Witness ==
    \E c \in Calls :
        /\ Ordered(c) /\ prefVal[c]
        /\ looked[c] = <<"v6b", "v4b", "v6a", "v4a">>
        /\ ips[c] = <<"v4b", "v4a", "v6b", "v6a">>

\* C14: the ordering step never reorders unparseable entries relative to
\* each other and never relocates one: each stands after the step at the
\* index where the lookup put it.
C14_UnparseableStay ==
    \A c \in Calls : Ordered(c) =>
        /\ Len(ips[c]) = Len(looked[c])
        /\ \A i \in 1..Len(looked[c]) : ParseFails(looked[c][i]) => ips[c][i] = looked[c][i]
        /\ SelectSeq(ips[c], ParseFails) = SelectSeq(looked[c], ParseFails)

\* the step swapped the two candidates between two unparseable entries and
\* left both entries where they were
C14_Witness ==
    \E c \in Calls :
        /\ Ordered(c) /\ prefVal[c]
        /\ looked[c] = <<"bad2", "v6a", "v4a", "bad">>
        /\ ips[c] = <<"bad2", "v4a", "v6a", "bad">>

(***************************************************************************)
(* Cancellation.                                                           *)
(***************************************************************************)
\* positions of a dial after its lookup phase
PastLookup == {"once_fast", "once_lock", "once_check", "once_f", "once_store",
               "once_unlock", "once_read", "sort", "conn_loop", "conn_wait"}

\* c's dial has returned an error and no connection
Failed(c) == pc[c] = "done" /\ ret[c].conn = NoConn /\ ret[c].err # NoErr

\* C15: when the caller's context is cancelled while the function returned
\* by GetDialContext is in its lookup phase, the call does not go on to the
\* ordering step or the connect loop, starts no candidate dial, and what it
\* returns is an error and no connection.
C15_CancelInLookup ==
    \A c \in Calls :
        (fn[c].path = "dialctx" /\ cancelled[c] \in {"lookup", "nsdial"}) =>
            /\ pc[c] \notin PastLookup
            /\ tried[c] = << >>
            /\ pc[c] = "done" => Failed(c)

\* a dial-context call with a custom resolver, cancelled in its lookup phase
\* after the resolver dialed a nameserver, has returned the lookup's error
C15_Witness ==
    \E c \in Calls :
        /\ fn[c].path = "dialctx" /\ cancelled[c] = "lookup"
        /\ nsSteps[c] >= 1
        /\ Failed(c) /\ ret[c].err = ErrLookup /\ tried[c] = << >>

\* C16: when the caller's context is cancelled during a nameserver dial or a
\* candidate dial in flight, that dial and every later dial of the call
\* fails, the call returns an error and no connection, and once the call
\* has returned none of its dials is in flight.
C16_CancelInDial ==
    \A c \in Calls :
        /\ cancelled[c] = "nsdial" =>
               /\ \A i \in 1..Len(nsLog[c]) : nsLog[c][i].out # "ok"
               /\ nsRet[c].conn = NoConn
        /\ cancelled[c] \in {"nsdial", "conndial"} =>
               /\ \A i \in 1..Len(tried[c]) : tried[c][i].out # "ok"
               /\ pc[c] = "done" => Failed(c)
        /\ pc[c] = "done" => InFlight(nsLog[c]) = 0 /\ InFlight(tried[c]) = 0

\* a call cancelled during the dial of its first candidate went through its
\* second candidate too and returned the aggregate error
C16_Witness ==
    \E c \in Calls :
        /\ cancelled[c] = "conndial"
        /\ Failed(c) /\ ret[c].err = ErrDialAll
        /\ Len(tried[c]) = 2 /\ InFlight(tried[c]) = 0

(***************************************************************************)
(* The normaliser and the override registry.                               *)
(***************************************************************************)
\* SetCustomDNSServer has been called, and the last call had a non-empty
\* argument
Normalised == setHist # << >> /\ setHist[1].arg # EmptyStr

\* the argument of the last call, and what the call stored
Arg == setHist[1].arg
Out == CustomDNSServer

Bracketed(s) == <<"[">> \o s \o <<"]">>

HasBracket(s) == Contains(s, <<"[">>) \/ Contains(s, <<"]">>)

Example2001 == <<"2","0","0","1",":","d","b","8",":",":","1">>
Example8888 == <<"8",".","8",".","8",".","8">>

BracketedForm(s) == HasPrefix(s, <<"[">>) /\ Contains(s, <<"]", ":">>)

\* C18, as stated: an input of the bracketed form "[...]:port", or with
\* exactly one colon and no bracket, is returned unchanged, character for
\* character.
C18_UnchangedVerbatim ==
    (Normalised /\ (BracketedForm(Arg) \/ (Count(Arg, ":") = 1 /\ ~HasBracket(Arg))))
        => Out = Arg

\* C18, amended: when the input, trimmed of surrounding spaces, has the
\* bracketed form "[...]:port" or exactly one colon and no "]", the result
\* is the trimmed input; so an input of these forms without surrounding
\* spaces is returned unchanged.
C18_UnchangedAfterTrim ==
    Normalised =>
        LET t == TrimSpace(Arg) IN
        (BracketedForm(t) \/ (Count(t, ":") = 1 /\ ~Contains(t, <<"]">>))) => Out = t

\* a padded endpoint was stored without its padding
C18_Witness ==
    /\ Normalised
    /\ Arg = <<" ","8",".","8",".","8",".","8",":","5","3"," ">>
    /\ Out = <<"8",".","8",".","8",".","8",":","5","3">>

\* the string has none of the characters that end or bracket a host
Plain(s) == s # << >> /\ \A i \in 1..Len(s) : s[i] \notin {":", "[", "]", " "}

\* host:port, the host an IPv4 literal or a hostname (no colon, no bracket)
\* or a bracketed IPv6 literal, the port non-empty
HostPort(s) ==
    \E k \in 1..Len(s) :
        /\ s[k] = ":"
        /\ Plain(SubSeq(s, k + 1, Len(s)))
        /\ LET h == SubSeq(s, 1, k - 1) IN
           \/ Plain(h)
           \/ /\ Len(h) >= 3 /\ h[1] = "[" /\ h[Len(h)] = "]"
              /\ \A i \in 2..(Len(h) - 1) : h[i] \notin {"[", "]", " "}

\* C19: after SetCustomDNSServer(x) with a non-empty x, CustomDNSServer
\* holds an endpoint of the form host:port.
C19_CanonicalHostPort == Normalised => HostPort(Out)

\* C19 on the bracketed IPv6 literal without a port
C19_BracketedNoPort ==
    (Normalised /\ Arg = Bracketed(Example2001)) => HostPort(Out)

\* C20: SetCustomDNSServer with the empty string leaves CustomDNSServer as it
\* was before the call; an override already set is not cleared.
C20_EmptyIsNoOp ==
    (setHist # << >> /\ setHist[1].arg = EmptyStr) => CustomDNSServer = setHist[1].prev

\* the call with the empty string came after an override was set, and the
\* override is still there
C20_Witness ==
    /\ setHist # << >> /\ setHist[1].arg = EmptyStr
    /\ setHist[1].prev = <<"a", ":", "5", "3">>
    /\ CustomDNSServer = <<"a", ":", "5", "3">>

\* C21: the override is never cleared: whatever the arguments of the calls
\* of SetCustomDNSServer, once CustomDNSServer is non-empty no step makes it
\* empty.
C21_NeverCleared ==
    [][CustomDNSServer # EmptyStr => CustomDNSServer' # EmptyStr]_vars

\* with an override set, a call whose argument is one space stored ":53",
\* the most a later call can take away
C21_Witness ==
    /\ setHist # << >> /\ setHist[1].prev = <<"a", ":", "5", "3">>
    /\ setHist[1].arg = <<" ">>
    /\ CustomDNSServer = Port53

(***************************************************************************)
(* Errors and timeouts of the dial paths.                                  *)
(***************************************************************************)
\* C22: when net.SplitHostPort rejects the target address, a dial on either
\* path makes no lookup, no nameserver dial, no ordering and no candidate
\* dial, and returns the split error and no connection; nothing is retried.
C22_SplitErrorImmediate ==
    \A c \in Calls :
        (op[c] = "dial" /\ ~SplitHostPortOK(addr[c])) =>
            /\ pc[c] \in {"split", "done"}
            /\ nsSteps[c] = 0 /\ nsLog[c] = << >>
            /\ looked[c] = << >> /\ ips[c] = << >> /\ tried[c] = << >>
            /\ pc[c] = "done" => ret[c] = [conn |-> NoConn, err |-> ErrSplit]

\* a dial through a function with a custom resolver, to an address without
\* a port, has returned the split error
C22_Witness ==
    /\ fn[Dialer].resolver = "custom"
    /\ addr[Dialer] = BadAddr
    /\ pc[Dialer] = "done"
    /\ ret[Dialer].err = ErrSplit

\* C23: every dial call returns exactly one of a connection and an error; a
\* failed lookup is returned as an error with no candidate dialed; and a
\* failed candidate dial goes unreported only in a call that returns the
\* connection of a later candidate: otherwise the call returns an error.
C23_ExplicitErrors ==
    \A c \in Calls :
        (op[c] = "dial" /\ pc[c] = "done") =>
            /\ (ret[c].conn = NoConn) <=> (ret[c].err # NoErr)
            /\ (SplitHostPortOK(addr[c]) /\ looked[c] = << >>) =>
                   ret[c].err = ErrLookup /\ tried[c] = << >>
            /\ \A i \in 1..Len(tried[c]) : tried[c][i].out = "fail" =>
                   \/ ret[c].err # NoErr
                   \/ \E j \in (i + 1)..Len(tried[c]) :
                          tried[c][j].out = "ok" /\ ret[c].conn = tried[c][j].ip

\* the HTTP transport's dial dropped the error of its first candidate and
\* returned the connection of its second
C23_Witness ==
    /\ fn[Dialer].path = "http"
    /\ pc[Dialer] = "done"
    /\ ret[Dialer].err = NoErr
    /\ Len(tried[Dialer]) = 2
    /\ tried[Dialer][1].out = "fail"
    /\ tried[Dialer][2].out = "ok"

\* C24: in the dial-context path the lookup runs under a sub-context with
\* the supplied timeout, and every candidate dial, whatever its position in
\* the list, has a Dialer with the full supplied timeout.
C24_TimeoutLayers ==
    \A c \in Calls :
        (op[c] = "dial" /\ fn[c].path = "dialctx") =>
            /\ (SplitHostPortOK(addr[c]) /\ pc[c] # "split") => lookupCtx[c] = fn[c].timeout
            /\ \A i \in 1..Len(tried[c]) : tried[c][i].timeout = fn[c].timeout

\* a dial-context function built with a timeout of 7 s looked up under 7 s
\* and gave 7 s to its first candidate and again to its second
C24_Witness ==
    /\ fn[Dialer].path = "dialctx" /\ fn[Dialer].timeout = 7
    /\ lookupCtx[Dialer] = 7
    /\ Len(tried[Dialer]) = 2
    /\ tried[Dialer][1].timeout = 7 /\ tried[Dialer][2].timeout = 7

(***************************************************************************)
(* Concurrent dial calls.                                                  *)
(***************************************************************************)
\* the nameservers one invocation of the resolver's Dial dials, in order,
\* when every dial fails: a function of the override it read
NsOrder(dns) == (IF dns # EmptyStr THEN << dns >> ELSE << >>) \o Fallbacks(dns)

\* what a dial that has returned must have returned, from its own lookup
\* result and the outcomes of its own candidate dials
OutcomeOf(r, t) ==
    IF r = << >> THEN [conn |-> NoConn, err |-> ErrLookup]
    ELSE IF t # << >> /\ t[Len(t)].out = "ok" THEN [conn |-> t[Len(t)].ip, err |-> NoErr]
    ELSE [conn |-> NoConn, err |-> ErrDialAll]

\* C25: in every interleaving of two dial calls, what each call dials is
\* what it would dial alone: its nameservers are the override its Dial read
\* and then the fallback list in order, its candidates are its own lookup
\* result ordered by the host's preference, in order, and its outcome
\* follows from its own lookup result and its own dial outcomes.
C25_Independent ==
    \A c \in Calls :
        op[c] = "dial" =>
            /\ Len(nsLog[c]) <= Len(NsOrder(dnsServer[c]))
            /\ ServersOf(nsLog[c]) = SubSeq(NsOrder(dnsServer[c]), 1, Len(nsLog[c]))
            /\ pc[c] \in {"sort", "conn_loop", "conn_wait"} => prefVal[c] = ScanIfaces(host, 1)
            /\ LET order == SliceStable(looked[c], ScanIfaces(host, 1)) IN
               /\ Len(tried[c]) <= Len(order)
               /\ [i \in 1..Len(tried[c]) |-> tried[c][i].ip] = SubSeq(order, 1, Len(tried[c]))
               /\ (pc[c] = "done" /\ ret[c].err = ErrDialAll) => Len(tried[c]) = Len(order)
            /\ pc[c] = "done" => ret[c] = OutcomeOf(looked[c], tried[c])

\* the first call dials its second candidate while the second call, with
\* another candidate list, dials its first
C25_Witness ==
    /\ pc[Dialer] = "conn_wait" /\ Len(tried[Dialer]) = 2
    /\ pc[Other] = "conn_wait" /\ Len(tried[Other]) = 1
    /\ looked[Dialer] # looked[Other]
    /\ tried[Dialer][2].ip # tried[Other][1].ip

(***************************************************************************)
(* The two dial paths.                                                     *)
(***************************************************************************)
\* the candidates a call dialed, in order
TriedIPs(c) == [i \in 1..Len(tried[c]) |-> tried[c][i].ip]

\* both calls have returned, after the same target address, the same lookup
\* result and the same preference, and every candidate both dialed answered
\* both in the same way
SameInputs(c, d) ==
    /\ op[c] = "dial" /\ pc[c] = "done"
    /\ op[d] = "dial" /\ pc[d] = "done"
    /\ addr[c] = addr[d]
    /\ looked[c] = looked[d]
    /\ prefVal[c] = prefVal[d]
    /\ \A i \in 1..Len(tried[c]), j \in 1..Len(tried[d]) :
           tried[c][i].ip = tried[d][j].ip => tried[c][i].out = tried[d][j].out

Effective(t, d) == IF t > 0 THEN t ELSE d

\* C27: each factory replaces a timeout that is zero or negative by its own
\* default (30 seconds for GetHTTPClient, 5 for GetNetDialer, 15 for
\* GetDialContext) and keeps every positive timeout as it is.
C27_DefaultTimeouts ==
    [][\A c \in Calls, t \in TimeoutInputs :
          /\ GetHTTPClient(c, t) => fn'[c].timeout = Effective(t, 30)
          /\ GetNetDialer(c, t) => fn'[c].timeout = Effective(t, 5)
          /\ GetDialContext(c, t) => fn'[c].timeout = Effective(t, 15)]_vars

\* the three factories have each replaced a timeout by their default
C27_Witness ==
    /\ fn["c1"].path = "http" /\ fn["c1"].timeout = 30
    /\ fn["c2"].path = "netdialer" /\ fn["c2"].timeout = 5
    /\ fn["c3"].path = "dialctx" /\ fn["c3"].timeout = 15

(***************************************************************************)
(* The GPU utilization.                                                    *)
(***************************************************************************)
\* GetDetailedGPUInfo has returned entries without an error
GpuReturned == gpuInfos.vendor # "none" /\ ~gpuInfos.err

\* C28: every entry a successful GetDetailedGPUInfo returns has a utilization
\* from 0 to 100, whatever utilization text the vendor's tool printed.
C28_UtilizationInRange ==
    GpuReturned =>
        \A i \in 1..Len(gpuInfos.infos) :
            gpuInfos.infos[i] >= 0 /\ gpuInfos.infos[i] <= 100

\* what holds instead: the utilization is the number of the text, or 0 for
\* a text without one
C28_UtilizationAsPrinted ==
    GpuReturned =>
        \A i \in 1..Len(gpuInfos.infos) :
            LET r == ParseFloat(TrimSpace(TrimSuffix(TrimSpace(gpuInfos.data[i]), <<"%">>)))
            IN gpuInfos.infos[i] = IF r.ok THEN r.val ELSE 0

\* nvidia-smi printed "150 %" and the entry's utilization is 150
C28_Over100 ==
    /\ GpuReturned /\ gpuInfos.vendor = vendorNVIDIA
    /\ gpuInfos.data = << <<"1", "5", "0", " ", "%">> >>
    /\ gpuInfos.infos = << 150 >>

(***************************************************************************)
(* The first revision's Dial.                                              *)
(***************************************************************************)
\* the Dial of the first revision has returned to c after failing to reach
\* the current nameserver and every other built-in nameserver
OldAllFailed(c) ==
    /\ nsSteps[c] = 1 /\ nsRet[c].conn = NoConn
    /\ nsLog[c] # << >> /\ AllFailed(nsLog[c])

\* C29: in the revision that always builds a custom resolver, when the
\* current nameserver and every other built-in nameserver fail to dial, the
\* dial step returns the error of the last dial it made.
C29_LastAttemptError ==
    \A c \in Calls :
        OldAllFailed(c) => nsRet[c].err = DialErr(nsLog[c][Len(nsLog[c])].server)

\* what holds instead: the error returned is the one of the first dial, the
\* dial of the current nameserver
C29_FirstAttemptError ==
    \A c \in Calls :
        OldAllFailed(c) =>
            /\ nsRet[c].err = DialErr(nsLog[c][1].server)
            /\ nsLog[c][1].server = dnsServer[c]

\* with the override 9.9.9.9:53 every nameserver fails; the error returned
\* names the override, the last dial was to 119.29.29.29:53
C29_FirstNotLast ==
    /\ OldAllFailed(Dialer)
    /\ Len(nsLog[Dialer]) = Len(OldDNSServers) + 1
    /\ nsRet[Dialer].err = DialErr(<<"9",".","9",".","9",".","9",":","5","3">>)
    /\ nsLog[Dialer][Len(nsLog[Dialer])].server = OldDNSServers[Len(OldDNSServers)]

(***************************************************************************)
(* The resolver mode of what the factories built.                          *)
(***************************************************************************)
\* c holds a client, dialer or dial function built while no override was
\* configured, and an override is configured now
BuiltBeforeOverride(c) ==
    fn[c].path # "none" /\ ~fn[c].override /\ CustomDNSServer # EmptyStr

\* C30: the resolver mode is fixed when GetCustomResolver is called: what was
\* built while no override was configured keeps the platform default
\* resolver after a later SetCustomDNSServer, and its lookups dial neither
\* the override nor a fallback nameserver.
C30_ModeFixedAtBuild ==
    \A c \in Calls :
        BuiltBeforeOverride(c) =>
            /\ fn[c].resolver = "default"
            /\ GetCustomResolver = "custom"
            /\ pc[c] \notin NsPcs
            /\ \A i \in 1..Len(nsLog[c]) :
                   nsLog[c][i].server \notin {CustomDNSServer} \cup {DNSServers[j] : j \in 1..Len(DNSServers)}
            /\ (pc[c] = "done" /\ looked[c] # << >>) => nsSteps[c] = 0

\* a dial through a function built before the override was set has resolved
\* its host and connected while the override is configured
C30_Witness ==
    /\ BuiltBeforeOverride(Dialer)
    /\ pc[Dialer] = "done"
    /\ looked[Dialer] # << >>
    /\ nsSteps[Dialer] = 0
    /\ ret[Dialer].conn # NoConn

(***************************************************************************)
(* The normaliser applied twice.                                           *)
(***************************************************************************)
\* SetCustomDNSServer has been called with the override that was stored
StoredAgain == setHist # << >> /\ setHist[1].arg = setHist[1].prev /\ setHist[1].arg # EmptyStr

\* C31: normalizeDNSServer is idempotent: normalising what it returned gives
\* the same string, so SetCustomDNSServer called with the stored override
\* leaves CustomDNSServer unchanged.
C31_Idempotent ==
    /\ CustomDNSServer # EmptyStr => normalizeDNSServer(CustomDNSServer) = CustomDNSServer
    /\ StoredAgain => CustomDNSServer = setHist[1].prev

\* "2001:db8::1" was stored as "[2001:db8::1]:53", and the call with that
\* string has left it stored
C31_Witness ==
    /\ StoredAgain
    /\ setHist[1].arg = Bracketed(Example2001) \o Port53
    /\ CustomDNSServer = Bracketed(Example2001) \o Port53

(***************************************************************************)
(* The ordered list as a permutation.                                      *)
(***************************************************************************)
\* how many times x stands in the list
Occurrences(list, x) == Cardinality({i \in 1..Len(list) : list[i] = x})

\* the two lists hold the same entries, each as many times
Permutation(a, b) ==
    /\ Len(a) = Len(b)
    /\ \A i \in 1..Len(a) : Occurrences(a, a[i]) = Occurrences(b, a[i])

\* C32: the ordered candidate list is a permutation of the lookup's result
\* (nothing dropped, doubled or added), the candidates are dialed in its
\* order, and a dial that fails on all of them has dialed every resolved
\* address.
C32_Permutation ==
    \A c \in Calls :
        (op[c] = "dial" /\ pc[c] \in {"conn_loop", "conn_wait", "done"} /\ looked[c] # << >>) =>
            /\ Permutation(ips[c], looked[c])
            /\ TriedIPs(c) = SubSeq(ips[c], 1, Len(tried[c]))
            /\ (pc[c] = "done" /\ ret[c].err = ErrDialAll) => Permutation(TriedIPs(c), looked[c])

\* a list with a doubled address was reordered and the dial failed on all
\* four candidates
C32_Witness ==
    /\ pc[Dialer] = "done" /\ ret[Dialer].err = ErrDialAll
    /\ looked[Dialer] = <<"v6a", "v4a", "v6a", "v4b">>
    /\ TriedIPs(Dialer) = <<"v4a", "v4b", "v6a", "v6a">>

(***************************************************************************)
(* The session watch.                                                      *)
(***************************************************************************)
\* the polls before poll i whose enumeration succeeded
SuccessfulBefore(i) == {j \in 1..(i - 1) : ~polls[j].err}

\* sid was in the active list of the last successful poll before poll i
PresentBefore(i, sid) ==
    /\ SuccessfulBefore(i) # {}
    /\ LET j == CHOOSE k \in SuccessfulBefore(i) : \A m \in SuccessfulBefore(i) : m <= k
       IN sid \in SetOf(polls[j].current)

\* how many launches poll i attempted in session sid
LaunchesIn(i, sid) ==
    Cardinality({k \in 1..Len(polls[i].launches) : polls[i].launches[k].sid = sid})

\* C33: the helper launch is attempted once per continuous presence of an
\* active session: once in the first poll that reports the session, not
\* again while the session stays in the active list, whether or not the
\* launch succeeded, and once more only when the session was absent from a
\* successful poll and is reported again.
C33_LaunchOncePerPresence ==
    \A i \in 1..Len(polls), sid \in Sessions :
        LaunchesIn(i, sid) =
            IF ~polls[i].err /\ sid \in SetOf(polls[i].current) /\ ~PresentBefore(i, sid)
            THEN 1 ELSE 0

\* session 1 was launched in and the launch failed; it left while session 2
\* stayed, without a launch; back again, it alone was launched in once more
C33_Witness ==
    /\ Len(polls) = 3
    /\ polls[1].launches = << [sid |-> 1, ok |-> FALSE], [sid |-> 2, ok |-> TRUE] >>
    /\ polls[2].current = << 2 >> /\ ~polls[2].err /\ polls[2].launches = << >>
    /\ polls[3].current = << 2, 1 >>
    /\ polls[3].launches = << [sid |-> 1, ok |-> TRUE] >>

\* C34: after every poll whose enumeration succeeds the seen set is the set
\* of the sessions active in that poll (the departed ones are removed), and
\* a poll whose enumeration fails leaves the seen set as it was and launches
\* nothing.
C34_SeenIsActive ==
    polls # << >> =>
        LET last == polls[Len(polls)]
        IN IF last.err
           THEN seen = last.before /\ last.launches = << >>
           ELSE seen = SetOf(last.current)

\* two sessions were seen, a failed poll kept both, the next poll found one
\* of them gone and removed it
C34_Witness ==
    /\ Len(polls) = 3
    /\ polls[2].err /\ polls[2].before = {1, 2}
    /\ polls[3].before = {1, 2}
    /\ ~polls[3].err /\ seen = {2}

(***************************************************************************)
(* The helper's command line.                                              *)
(***************************************************************************)
\* the arguments the helper reads after its program name
HelperArgs == Tail(Argv(launch.cmdline))

IsFlag(a) == a = ShowWarning
NotFlag(a) == a # ShowWarning

\* C35: the command line launchSelfInSession builds holds the argument
\* "--show-warning" exactly once, however often the parent's arguments hold
\* it, and holds every other argument of the parent once, in the order of
\* the parent's arguments.
C35_FlagOnceArgsKept ==
    launch.called =>
        /\ Len(SelectSeq(HelperArgs, IsFlag)) = 1
        /\ SelectSeq(HelperArgs, NotFlag) = SelectSeq(launch.args, NotFlag)

\* what holds instead: the list that is joined has the flag once, at its
\* end, and the other arguments of the parent in their order; the command
\* line gives the helper that list when no argument of the parent has a
\* blank in it
C35_ListKeptJoinUnquoted ==
    launch.called =>
        /\ Len(SelectSeq(launch.fullArgs, IsFlag)) = 1
        /\ launch.fullArgs[Len(launch.fullArgs)] = ShowWarning
        /\ SelectSeq(Tail(launch.fullArgs), NotFlag) = SelectSeq(launch.args, NotFlag)
        /\ (\A i \in 1..Len(launch.args) : ~ContainsBlankOrQuote(launch.args[i])) =>
               HelperArgs = Tail(launch.fullArgs)

\* the parent's argument "C:\P F" reaches the helper as two arguments
C35_ArgumentSplit ==
    /\ launch.called
    /\ launch.args = << <<"-", "e">>, <<"C", ":", "\\", "P", " ", "F">> >>
    /\ HelperArgs = << <<"-", "e">>, <<"C", ":", "\\", "P">>, <<"F">>, ShowWarning >>

(***************************************************************************)
(* The GPU average of the report.                                          *)
(***************************************************************************)
\* C36: whenever GenerateReport computes the GPU average_usage it divides
\* the utilization sum by a count of GPUs of at least 1: a GetDetailedGPUInfo
\* that succeeds with no GPU does not reach the division, and the report is
\* produced all the same.
C36_DivisorAtLeastOne ==
    report.called =>
        /\ report.divided => report.count >= 1
        /\ report.produced

\* what holds instead: the division is made for every successful
\* GetDetailedGPUInfo; with one GPU or more the report is produced, with
\* none the average is NaN and no report is returned
C36_DividesAlways ==
    report.called =>
        /\ report.divided <=> (report.gpu = "detailed")
        /\ report.divided => report.count = Len(gpuInfos.infos) /\ ~gpuInfos.err
        /\ report.produced <=> ~(report.divided /\ report.count = 0)

\* rocm-smi printed no card: GetDetailedGPUInfo returned no entry and no
\* error, the sum 0 was divided by 0 and no report was returned
C36_ZeroGPUs ==
    /\ report.called /\ gpuInfos.vendor = vendorAMD
    /\ gpuInfos.data = << >> /\ ~gpuInfos.err
    /\ report.divided /\ report.count = 0 /\ ~report.produced

====
